---- MODULE Spec2Model ----
(***************************************************************************)
(* Veterans diary event map: the EventMap class of script.js and the       *)
(* utilities of js/utils.js.                                               *)
(*                                                                         *)
(* Text is a sequence of UTF-16 code units (String.charCodeAt), so that    *)
(* toLowerCase, trim, includes and the string hash are computed, not       *)
(* assumed.  Coordinates are integers in millionths of a degree.  A date   *)
(* (YYYY-MM-DD) is the number of days from today's local date.  Event      *)
(* objects live in objs; the arrays events and filteredEvents hold         *)
(* references (indices into objs), as the JavaScript arrays do.            *)
(*                                                                         *)
(* Specifications:                                                         *)
(*   SpecLoc   one resolution of an event location                         *)
(*             (getCoordinatesForLocation and what it calls)               *)
(*   SpecLoad  construction, init and the calendar load, then addEvent     *)
(*   Spec      the page after init: the handlers that call filterEvents,   *)
(*             and the filterEvents calls that await geocodePostcode       *)
(*   SpecDebounce  the page after init with the search input's debounce    *)
(*             timers and the clock                                        *)
(*   SpecPass  the page after init: searches, category filters and added  *)
(*             events, and the filterEvents calls that await geocodePostcode *)
(*   SpecFrame the page after init: searches, quick date filters and      *)
(*             added events, and the filterEvents calls that await         *)
(*             geocodePostcode                                             *)
(*   SpecCalls one call of categorizeEvent, sanitiseText, sanitizeText or  *)
(*             processCalendarItems                                        *)
(***************************************************************************)
EXTENDS Integers, Sequences, FiniteSets, TLC

VARIABLES
  \* one location resolution (SpecLoc)
  location,     \* getCoordinatesForLocation: its argument
  locPc,        \* "idle" | "awaitGoogle" | "returned" | "raised"
  coordinates,  \* the value getCoordinatesForLocation returned, or Null
  geoOutcome,   \* what the geocoding request ended with, or "none"
  \* environment
  geoConfig,    \* window.CALENDAR_CONFIG as the geocoding guard sees it
  calConfig,    \* window.CALENDAR_CONFIG as loadGoogleCalendarEvents sees it
  utcDay,       \* the UTC date minus the local date, in days, at load time
  zone,         \* the hours local time is ahead of UTC: 0 (GMT) or 1 (BST)
  trace,        \* the lookups made for locations, in order: "table", "network"
  \* init and loadGoogleCalendarEvents
  loadPc,       \* "start" | "fetching" | "resolving" | "ready"
  items,        \* data.items of the calendar response
  idx,          \* the loop variable i (1-based) of the item being resolved
  transformedEvents,  \* the local array of loadGoogleCalendarEvents
  pending,      \* the event whose coordinates are awaited, or Null
  loadResult,   \* "none" | "assigned" | "empty" | "threw": how the load ended
  spinner,      \* the loading spinner overlay is in the page
  \* EventMap fields
  objs,         \* the event objects ever put in an array
  events,       \* this.events
  filteredEvents,     \* this.filteredEvents
  currentDateFilter,  \* this.currentDateFilter
  \* the page
  searchInput,  \* #searchInput .value
  categoryFilter,     \* #categoryFilter .value
  dateFilter,   \* #dateFilter .value: "" or a date
  passes,       \* the filterEvents calls awaiting geocodePostcode, oldest first
  \* timers
  timers,       \* the pending timeouts of the debounced filter: the ms each has left
  sinceKey,     \* ms since the search input last fired "input" (at most the delay), or -1
  \* history of the filter passes
  lastStart,    \* the latest filterEvents call: [trigger, debounced]
  burstKeys,    \* "input" events of the current burst: 0, 1, or 2 for more than one
  burstRuns,    \* debounced filterEvents calls since the current burst of input began
  lastWait,     \* sinceKey when the debounced filter last ran, or -1
  latestResult, \* what the latest filterEvents call assigned, or Waiting while it waits
  lastPass,     \* the constants of the filterEvents call that last ran to its end
  \* a function called by itself
  call,         \* the function and its arguments, or Null
  returned      \* what the call returned (or that it threw), or Null before it ends

locVars == <<location, locPc, coordinates, geoOutcome>>
envVars == <<geoConfig, calConfig, utcDay, zone, call, returned>>
loadVars == <<loadPc, items, idx, transformedEvents, pending, loadResult, spinner>>
mapVars == <<objs, events, filteredEvents, currentDateFilter>>
pageVars == <<searchInput, categoryFilter, dateFilter>>
timerVars == <<timers, sinceKey>>
histVars == <<lastStart, burstKeys, burstRuns, lastWait, latestResult, lastPass>>
vars == <<locVars, envVars, trace, loadVars, mapVars, pageVars, passes, timerVars, histVars>>

Null == [null |-> TRUE]

----------------------------------------------------------------------------
(* Text helpers: String.prototype methods on code-unit sequences.          *)

Min(a, b) == IF a < b THEN a ELSE b

toLowerCase(text) ==
  [i \in 1..Len(text) |-> IF text[i] >= 65 /\ text[i] <= 90 THEN text[i] + 32 ELSE text[i]]

includes(text, part) ==
  \E i \in 0..(Len(text) - Len(part)) :
     \A j \in 1..Len(part) : text[i + j] = part[j]

isSpace(c) == c \in {9, 10, 11, 12, 13, 32, 160}

trim(text) ==
  LET keep == {i \in 1..Len(text) : ~isSpace(text[i])}
  IN IF keep = {} THEN <<>>
     ELSE LET lo == CHOOSE i \in keep : \A j \in keep : i <= j
              hi == CHOOSE i \in keep : \A j \in keep : j <= i
          IN SubSeq(text, lo, hi)

----------------------------------------------------------------------------
(* The string hash of generateUniqueCoordinates.  A 32-bit value is kept   *)
(* as its two 16-bit halves so that no intermediate exceeds 32 bits.       *)

\* one round of the loop: hash = (hash << 5) - hash + char, that is
\* hash * 31 + char, then hash & hash, which cuts it to 32 bits
hashStep(h, char) ==
  LET low == h.lo * 31 + char
      high == h.hi * 31 + (low \div 65536)
  IN [hi |-> high % 65536, lo |-> low % 65536]

\* the loop from code unit i on; each half is looked at in every round, so
\* that the rounds are evaluated one by one
RECURSIVE hashHalves(_, _, _)
hashHalves(text, i, h) ==
  CASE i > Len(text) -> h
    [] i <= Len(text) /\ h.hi < 65536 /\ h.lo < 65536 ->
         hashHalves(text, i + 1, hashStep(h, text[i]))

\* the two halves as a signed 32-bit integer
toInt32(h) == IF h.hi >= 32768 THEN (h.hi - 65536) * 65536 + h.lo ELSE h.hi * 65536 + h.lo

stringHash(text) == toInt32(hashHalves(text, 1, [hi |-> 0, lo |-> 0]))

\* JavaScript's %: the result takes the sign of the dividend
jsRem(a, m) ==
  IF a >= 0 THEN a % m
  ELSE LET r == a % m IN IF r = 0 THEN 0 ELSE r - m

\* JavaScript's >> : arithmetic shift, the floor of a / 2^n
shiftRight10(a) == a \div 1024

\* ((x / 1000) - 0.5) * offsetRange with offsetRange = 0.008, in millionths
offsetMicro(x) == (x - 500) * 8

generateUniqueCoordinates(loc, baseCoords) ==
  LET hash == stringHash(loc)
      latOffset == offsetMicro(jsRem(hash, 1000))
      lngOffset == offsetMicro(jsRem(shiftRight10(hash), 1000))
  IN [lat |-> baseCoords.lat + latOffset, lng |-> baseCoords.lng + lngOffset]

DEFAULT_REGION == [lat |-> 54978300, lng |-> -1617800]

----------------------------------------------------------------------------
(* The Known Location table and its lookup, as the repository's developer  *)
(* guide gives them (script.js has neither).                               *)

locationMap ==
  <<
     [key |-> <<110, 101, 119, 99, 97, 115, 116, 108, 101>>, lat |-> 54978300, lng |-> -1617800],  \* "newcastle"
     [key |-> <<110, 101, 119, 99, 97, 115, 116, 108, 101, 32, 117, 112, 111, 110, 32, 116, 121, 110, 101>>, lat |-> 54978300, lng |-> -1617800],  \* "newcastle upon tyne"
     [key |-> <<115, 117, 110, 100, 101, 114, 108, 97, 110, 100>>, lat |-> 54906900, lng |-> -1383800],  \* "sunderland"
     [key |-> <<109, 105, 100, 100, 108, 101, 115, 98, 114, 111, 117, 103, 104>>, lat |-> 54574200, lng |-> -1234900],  \* "middlesbrough"
     [key |-> <<100, 117, 114, 104, 97, 109>>, lat |-> 54775300, lng |-> -1584900],  \* "durham"
     [key |-> <<103, 97, 116, 101, 115, 104, 101, 97, 100>>, lat |-> 54953700, lng |-> -1610300],  \* "gateshead"
     [key |-> <<104, 97, 114, 116, 108, 101, 112, 111, 111, 108>>, lat |-> 54689600, lng |-> -1211500],  \* "hartlepool"
     [key |-> <<115, 111, 117, 116, 104, 32, 115, 104, 105, 101, 108, 100, 115>>, lat |-> 54998600, lng |-> -1432300],  \* "south shields"
     [key |-> <<110, 111, 114, 116, 104, 32, 115, 104, 105, 101, 108, 100, 115>>, lat |-> 55017600, lng |-> -1448600],  \* "north shields"
     [key |-> <<116, 121, 110, 101, 109, 111, 117, 116, 104>>, lat |-> 55017900, lng |-> -1421700],  \* "tynemouth"
     [key |-> <<119, 104, 105, 116, 108, 101, 121, 32, 98, 97, 121>>, lat |-> 55039000, lng |-> -1446500],  \* "whitley bay"
     [key |-> <<99, 114, 97, 109, 108, 105, 110, 103, 116, 111, 110>>, lat |-> 55078900, lng |-> -1590600],  \* "cramlington"
     [key |-> <<104, 101, 120, 104, 97, 109>>, lat |-> 54971900, lng |-> -2101900],  \* "hexham"
     [key |-> <<99, 111, 110, 115, 101, 116, 116>>, lat |-> 54852100, lng |-> -1831700],  \* "consett"
     [key |-> <<115, 116, 97, 110, 108, 101, 121>>, lat |-> 54869700, lng |-> -1694700],  \* "stanley"
     [key |-> <<99, 104, 101, 115, 116, 101, 114, 45, 108, 101, 45, 115, 116, 114, 101, 101, 116>>, lat |-> 54855600, lng |-> -1570600],  \* "chester-le-street"
     [key |-> <<119, 97, 115, 104, 105, 110, 103, 116, 111, 110>>, lat |-> 54900000, lng |-> -1519700],  \* "washington"
     [key |-> <<106, 97, 114, 114, 111, 119>>, lat |-> 54980600, lng |-> -1484700],  \* "jarrow"
     [key |-> <<104, 101, 98, 98, 117, 114, 110>>, lat |-> 54973300, lng |-> -1511400],  \* "hebburn"
     [key |-> <<115, 101, 97, 104, 97, 109>>, lat |-> 54838700, lng |-> -1346700],  \* "seaham"
     [key |-> <<102, 101, 114, 114, 121, 104, 105, 108, 108>>, lat |-> 54699800, lng |-> -1563900],  \* "ferryhill"
     [key |-> <<115, 112, 101, 110, 110, 121, 109, 111, 111, 114>>, lat |-> 54699800, lng |-> -1599600],  \* "spennymoor"
     [key |-> <<98, 105, 115, 104, 111, 112, 32, 97, 117, 99, 107, 108, 97, 110, 100>>, lat |-> 54661200, lng |-> -1677600],  \* "bishop auckland"
     [key |-> <<112, 101, 116, 101, 114, 108, 101, 101>>, lat |-> 54761000, lng |-> -1337200],  \* "peterlee"
     [key |-> <<98, 108, 121, 116, 104>>, lat |-> 55127800, lng |-> -1508500],  \* "blyth"
     [key |-> <<97, 115, 104, 105, 110, 103, 116, 111, 110>>, lat |-> 55188300, lng |-> -1568600],  \* "ashington"
     [key |-> <<100, 97, 119, 100, 111, 110, 32, 121, 111, 117, 116, 104, 32, 97, 110, 100, 32, 99, 111, 109, 109, 117, 110, 105, 116, 121, 32, 99, 101, 110, 116, 114, 101>>, lat |-> 54840000, lng |-> -1348000],  \* "dawdon youth and community centre"
     [key |-> <<114, 111, 121, 97, 108, 32, 98, 114, 105, 116, 105, 115, 104, 32, 108, 101, 103, 105, 111, 110, 32, 104, 101, 98, 98, 117, 114, 110>>, lat |-> 54974000, lng |-> -1512000],  \* "royal british legion hebburn"
     [key |-> <<114, 111, 121, 97, 108, 32, 98, 114, 105, 116, 105, 115, 104, 32, 108, 101, 103, 105, 111, 110, 32, 98, 114, 97, 110, 99, 104, 32, 109, 101, 101, 116, 105, 110, 103>>, lat |-> 54974000, lng |-> -1512000],  \* "royal british legion branch meeting"
     [key |-> <<114, 111, 121, 97, 108, 32, 98, 114, 105, 116, 105, 115, 104, 32, 108, 101, 103, 105, 111, 110>>, lat |-> 54999000, lng |-> -1433000],  \* "royal british legion"
     [key |-> <<115, 112, 101, 110, 110, 121, 109, 111, 111, 114, 32, 99, 108, 97, 121, 32, 112, 105, 103, 101, 111, 110, 32, 99, 108, 117, 98>>, lat |-> 54701000, lng |-> -1565000],  \* "spennymoor clay pigeon club"
     [key |-> <<119, 101, 115, 116, 32, 104, 111, 117, 115, 101, 32, 102, 97, 114, 109>>, lat |-> 54702000, lng |-> -1566000],  \* "west house farm"
     [key |-> <<105, 111, 110, 97, 32, 115, 111, 99, 105, 97, 108, 32, 99, 108, 117, 98>>, lat |-> 54975000, lng |-> -1513000],  \* "iona social club"
     [key |-> <<104, 101, 98, 98, 117, 114, 110, 32, 105, 111, 110, 97, 32, 115, 111, 99, 105, 97, 108, 32, 99, 108, 117, 98>>, lat |-> 54975000, lng |-> -1513000],  \* "hebburn iona social club"
     [key |-> <<104, 101, 98, 98, 117, 114, 110, 32, 105, 111, 110, 97, 32, 115, 111, 99, 105, 97, 108, 32, 99, 108, 117, 98, 44, 32, 115, 116, 97, 116, 105, 111, 110, 32, 114, 100>>, lat |-> 54975000, lng |-> -1513000],  \* "hebburn iona social club, station rd"
     [key |-> <<110, 101, 119, 99, 97, 115, 116, 108, 101, 32, 99, 105, 118, 105, 99, 32, 99, 101, 110, 116, 114, 101>>, lat |-> 54972000, lng |-> -1610000],  \* "newcastle civic centre"
     [key |-> <<110, 101, 119, 99, 97, 115, 116, 108, 101, 32, 117, 110, 105, 118, 101, 114, 115, 105, 116, 121>>, lat |-> 54980000, lng |-> -1613000],  \* "newcastle university"
     [key |-> <<115, 116, 32, 106, 97, 109, 101, 115, 32, 112, 97, 114, 107>>, lat |-> 54975500, lng |-> -1622000],  \* "st james park"
     [key |-> <<113, 117, 97, 121, 115, 105, 100, 101>>, lat |-> 54969000, lng |-> -1604000],  \* "quayside"
     [key |-> <<99, 101, 110, 116, 114, 97, 108, 32, 115, 116, 97, 116, 105, 111, 110>>, lat |-> 54968000, lng |-> -1617000],  \* "central station"
     [key |-> <<109, 111, 110, 117, 109, 101, 110, 116>>, lat |-> 54973000, lng |-> -1614000],  \* "monument"
     [key |-> <<103, 114, 97, 105, 110, 103, 101, 114, 32, 109, 97, 114, 107, 101, 116>>, lat |-> 54971000, lng |-> -1612000],  \* "grainger market"
     [key |-> <<101, 108, 100, 111, 110, 32, 115, 113, 117, 97, 114, 101>>, lat |-> 54975000, lng |-> -1616000],  \* "eldon square"
     [key |-> <<119, 97, 108, 107, 101, 114, 32, 97, 99, 116, 105, 118, 105, 116, 121, 32, 100, 111, 109, 101>>, lat |-> 54985000, lng |-> -1580000],  \* "walker activity dome"
     [key |-> <<98, 121, 107, 101, 114, 32, 99, 111, 109, 109, 117, 110, 105, 116, 121, 32, 99, 101, 110, 116, 114, 101>>, lat |-> 54982000, lng |-> -1595000],  \* "byker community centre"
     [key |-> <<115, 99, 111, 116, 115, 119, 111, 111, 100, 32, 99, 111, 109, 109, 117, 110, 105, 116, 121, 32, 99, 101, 110, 116, 114, 101>>, lat |-> 54965000, lng |-> -1660000],  \* "scotswood community centre"
     [key |-> <<98, 101, 110, 119, 101, 108, 108, 32, 99, 111, 109, 109, 117, 110, 105, 116, 121, 32, 99, 101, 110, 116, 114, 101>>, lat |-> 54970000, lng |-> -1640000],  \* "benwell community centre"
     [key |-> <<97, 114, 116, 104, 117, 114, 115, 32, 104, 105, 108, 108, 32, 99, 111, 109, 109, 117, 110, 105, 116, 121, 32, 99, 101, 110, 116, 114, 101>>, lat |-> 54976000, lng |-> -1630000],  \* "arthurs hill community centre"
     [key |-> <<101, 108, 115, 119, 105, 99, 107, 32, 99, 111, 109, 109, 117, 110, 105, 116, 121, 32, 99, 101, 110, 116, 114, 101>>, lat |-> 54972000, lng |-> -1635000] >>  \* "elswick community centre"

cities ==
  << <<110, 101, 119, 99, 97, 115, 116, 108, 101, 32, 117, 112, 111, 110, 32, 116, 121, 110, 101>>,
     <<110, 101, 119, 99, 97, 115, 116, 108, 101>>,
     <<115, 117, 110, 100, 101, 114, 108, 97, 110, 100>>,
     <<109, 105, 100, 100, 108, 101, 115, 98, 114, 111, 117, 103, 104>>,
     <<100, 117, 114, 104, 97, 109>>,
     <<103, 97, 116, 101, 115, 104, 101, 97, 100>>,
     <<104, 97, 114, 116, 108, 101, 112, 111, 111, 108>> >>

\* the first table entry with this key (a later duplicate key would overwrite it:
\* the table has none)
tableIndex(key) ==
  LET hits == {i \in 1..Len(locationMap) : locationMap[i].key = key}
  IN IF hits = {} THEN 0 ELSE CHOOSE i \in hits : \A j \in hits : i <= j

\* hash % 1000 and (hash >>> 16) % 1000, each scaled to +-0.008 / 2 degrees
getLocationOffset(loc) ==
  LET h == hashHalves(loc, 1, [hi |-> 0, lo |-> 0])
  IN [lat |-> offsetMicro(jsRem(toInt32(h), 1000)), lng |-> offsetMicro(h.hi % 1000)]

getKnownLocationCoordinates(loc) ==
  IF loc = <<>> THEN Null
  ELSE
    LET locationLower == toLowerCase(loc)
        direct == tableIndex(locationLower)
        \* keys with a space, longest first (the sort is stable), contained in the input
        venues == {i \in 1..Len(locationMap) :
                     /\ 32 \in {locationMap[i].key[k] : k \in 1..Len(locationMap[i].key)}
                     /\ includes(locationLower, locationMap[i].key)}
        venue == CHOOSE i \in venues : \A j \in venues :
                     \/ Len(locationMap[i].key) > Len(locationMap[j].key)
                     \/ Len(locationMap[i].key) = Len(locationMap[j].key) /\ i <= j
        cityHits == {c \in 1..Len(cities) : includes(locationLower, cities[c])}
        city == CHOOSE c \in cityHits : \A d \in cityHits : c <= d
        base == locationMap[tableIndex(cities[city])]
        offset == getLocationOffset(loc)
    IN IF direct # 0 THEN [lat |-> locationMap[direct].lat, lng |-> locationMap[direct].lng]
       ELSE IF venues # {} THEN [lat |-> locationMap[venue].lat, lng |-> locationMap[venue].lng]
       ELSE IF cityHits # {} THEN [lat |-> base.lat + offset.lat, lng |-> base.lng + offset.lng]
       ELSE Null

----------------------------------------------------------------------------
(* Location resolution: getCoordinatesForLocation, geocodeWithGoogle.      *)

GeoConfigs == {"configured", "disabled", "nokey", "placeholder", "noconfig"}

\* config?.ENABLE_GEOCODING && config?.GEOCODING_API_KEY && the key is not the placeholder
geocodingEnabled(config) == config = "configured"

GeoOutcomes ==
  {"OK", "OK_NO_RESULTS", "HTTP_ERROR", "REQUEST_DENIED", "OVER_QUERY_LIMIT",
   "ZERO_RESULTS", "UNKNOWN_ERROR", "NETWORK_EXCEPTION"}

\* what results[0].geometry.location may hold
GoogleLocations ==
  { [lat |-> 0, lng |-> 0],
    [lat |-> 54775300, lng |-> -1584900],
    [lat |-> 54906900, lng |-> -1383800] }

\* geocodeWithGoogle: resolves with a coordinate pair, or rejects
geocodeWithGoogle(outcome, found) ==
  IF outcome = "OK" THEN [threw |-> FALSE, value |-> [lat |-> found.lat, lng |-> found.lng]]
  ELSE [threw |-> TRUE, value |-> Null]

\* the tail of getCoordinatesForLocation: the hash fallback
fallbackCoordinates(loc) == generateUniqueCoordinates(loc, DEFAULT_REGION)

\* afterGeocode without the try/catch around the geocoding call
afterGeocode_NoCatch(loc, g) ==
  IF g.threw THEN [raised |-> TRUE, value |-> Null]
  ELSE IF g.value # Null THEN [raised |-> FALSE, value |-> g.value]
  ELSE [raised |-> FALSE, value |-> fallbackCoordinates(loc)]

\* getCoordinatesForLocation after the await: try { if (googleCoords) return } catch { log }
afterGeocode(loc, g) ==
  IF ~g.threw /\ g.value # Null
  THEN [raised |-> FALSE, value |-> g.value]
  ELSE [raised |-> FALSE, value |-> fallbackCoordinates(loc)]

----------------------------------------------------------------------------
(* The categorizer: categorizeEvent.  A tag is named by a string; the      *)
(* texts it is matched against are code-unit sequences.                    *)

dropInWords ==
  {
    <<100, 114, 111, 112, 32, 105, 110>>,  \* "drop in"
    <<100, 114, 111, 112, 45, 105, 110>> }  \* "drop-in"

supportWords ==
  {
    <<115, 117, 112, 112, 111, 114, 116>>,  \* "support"
    <<99, 111, 117, 110, 115, 101, 108, 108, 105, 110, 103>>,  \* "counselling"
    <<116, 104, 101, 114, 97, 112, 121>>,  \* "therapy"
    <<104, 101, 108, 112>>,  \* "help"
    <<97, 100, 118, 105, 99, 101>>,  \* "advice"
    <<119, 101, 108, 102, 97, 114, 101>> }  \* "welfare"

meetingWords ==
  {
    <<109, 101, 101, 116, 105, 110, 103>>,  \* "meeting"
    <<98, 114, 97, 110, 99, 104, 32, 109, 101, 101, 116, 105, 110, 103>>,  \* "branch meeting"
    <<97, 115, 115, 111, 99, 105, 97, 116, 105, 111, 110>>,  \* "association"
    <<114, 98, 108>>,  \* "rbl"
    <<114, 111, 121, 97, 108, 32, 98, 114, 105, 116, 105, 115, 104, 32, 108, 101, 103, 105, 111, 110>>,  \* "royal british legion"
    <<100, 108, 105>> }  \* "dli"

workshopWords ==
  {
    <<119, 111, 114, 107, 115, 104, 111, 112>>,  \* "workshop"
    <<116, 114, 97, 105, 110, 105, 110, 103>>,  \* "training"
    <<99, 111, 117, 114, 115, 101>>,  \* "course"
    <<115, 101, 109, 105, 110, 97, 114>> }  \* "seminar"

socialWords ==
  {
    <<115, 111, 99, 105, 97, 108>>,  \* "social"
    <<109, 105, 120, 101, 114>>,  \* "mixer"
    <<112, 97, 114, 116, 121>>,  \* "party"
    <<99, 101, 108, 101, 98, 114, 97, 116, 105, 111, 110>> }  \* "celebration"

sportWords ==
  {
    <<99, 108, 97, 121, 32, 112, 105, 103, 101, 111, 110>>,  \* "clay pigeon"
    <<115, 104, 111, 111, 116, 105, 110, 103>>,  \* "shooting"
    <<102, 111, 111, 116, 98, 97, 108, 108>>,  \* "football"
    <<114, 117, 103, 98, 121>>,  \* "rugby"
    <<115, 97, 105, 108, 105, 110, 103>>,  \* "sailing"
    <<102, 105, 115, 104, 105, 110, 103>>,  \* "fishing"
    <<103, 111, 108, 102>>,  \* "golf"
    <<99, 121, 99, 108, 105, 110, 103>>,  \* "cycling"
    <<119, 97, 108, 107, 105, 110, 103>>,  \* "walking"
    <<104, 105, 107, 105, 110, 103>>,  \* "hiking"
    <<115, 119, 105, 109, 109, 105, 110, 103>>,  \* "swimming"
    <<111, 102, 102, 115, 104, 111, 114, 101, 32, 115, 97, 105, 108, 105, 110, 103>> }  \* "offshore sailing"

\* a value that is not a string (a number, say): calling a String method on it throws
NotAString == <<-1>>

BreakfastClub == <<98, 114, 101, 97, 107, 102, 97, 115, 116, 32, 99, 108, 117, 98>>
Breakfast == <<98, 114, 101, 97, 107, 102, 97, 115, 116>>
ClayPigeon == <<99, 108, 97, 121, 32, 112, 105, 103, 101, 111, 110>>
NaafiBreak == <<110, 97, 97, 102, 105, 32, 98, 114, 101, 97, 107>>
DropIn == <<100, 114, 111, 112, 32, 105, 110>>
Sport == <<115, 112, 111, 114, 116>>

containsAny(text, words) == \E w \in words : includes(text, w)

\* the rules in evaluation order, each with whether it matched
categoryRules(titleLower, descLower, combined) ==
  << [tag |-> "drop-in", hit |-> containsAny(descLower, dropInWords) \/ containsAny(combined, dropInWords)],
     [tag |-> "support", hit |-> containsAny(combined, supportWords)],
     [tag |-> "breakfast-club",
      hit |-> \/ includes(combined, BreakfastClub)
              \/ includes(combined, Breakfast) /\ ~includes(combined, ClayPigeon)
              \/ includes(combined, NaafiBreak) /\ ~includes(descLower, DropIn)],
     [tag |-> "meeting", hit |-> containsAny(combined, meetingWords)],
     [tag |-> "workshop", hit |-> containsAny(combined, workshopWords)],
     [tag |-> "social", hit |-> containsAny(combined, socialWords)],
     [tag |-> "sport", hit |-> containsAny(combined, sportWords) \/ includes(titleLower, Sport)] >>

\* the elements of a sequence that satisfy keep, in order
RECURSIVE pushHits(_, _)
pushHits(rules, i) ==
  IF i > Len(rules) THEN <<>>
  ELSE (IF rules[i].hit THEN <<rules[i].tag>> ELSE <<>>) \o pushHits(rules, i + 1)

\* (title || "").toLowerCase() throws on a truthy value that is not a string
categorizeThrows(title, description) == title = NotAString \/ description = NotAString

\* the primary category taken from the end of the tags
categorizeEvent_LastTag(title, description) ==
  LET titleLower == toLowerCase(title)
      descLower == toLowerCase(description)
      combined == titleLower \o <<32>> \o descLower
      tags == pushHits(categoryRules(titleLower, descLower, combined), 1)
  IN [tags |-> tags, primary |-> IF Len(tags) > 0 THEN tags[Len(tags)] ELSE "other"]

categorizeEvent(title, description) ==
  LET titleLower == toLowerCase(title)
      descLower == toLowerCase(description)
      combined == titleLower \o <<32>> \o descLower
      tags == pushHits(categoryRules(titleLower, descLower, combined), 1)
  IN [tags |-> tags, primary |-> IF Len(tags) > 0 THEN tags[1] ELSE "other"]

----------------------------------------------------------------------------
(* Calendar items and transformGoogleCalendarEvent.  A text field that is  *)
(* absent is the empty text: every use is of the form (field || default).  *)

excludedRecurringEventIds == {"2scpgqhjtjh5tc33cg3jm3ik5c", "30ed1sa1ev6k8kgp0ucg1mq24j_R20260105"}

isExcludedRecurringEvent(recurringEventId) == recurringEventId \in excludedRecurringEventIds

UnnamedEvent == <<85, 110, 110, 97, 109, 101, 100, 32, 69, 118, 101, 110, 116>>
NoDescription ==
  <<78, 111, 32, 100, 101, 115, 99, 114, 105, 112, 116, 105, 111, 110, 32, 97, 118, 97,
    105, 108, 97, 98, 108, 101>>
LocationTBD == <<76, 111, 99, 97, 116, 105, 111, 110, 32, 84, 66, 68>>

\* value || fallback
orElse(value, fallback) == IF value = <<>> THEN fallback ELSE value

\* the character references a description carries: &lt; &gt; &amp; &quot; &#39;
entities ==
  { [name |-> <<38, 108, 116, 59>>, char |-> 60],
    [name |-> <<38, 103, 116, 59>>, char |-> 62],
    [name |-> <<38, 97, 109, 112, 59>>, char |-> 38],
    [name |-> <<38, 113, 117, 111, 116, 59>>, char |-> 34],
    [name |-> <<38, 35, 51, 57, 59>>, char |-> 39] }

startsWithAt(text, i, part) ==
  /\ i + Len(part) - 1 <= Len(text)
  /\ \A j \in 1..Len(part) : text[i + j - 1] = part[j]

\* textarea.innerHTML = text; textarea.value: one left-to-right decoding pass
RECURSIVE decodeFrom(_, _)
decodeFrom(text, i) ==
  IF i > Len(text) THEN <<>>
  ELSE LET hits == {e \in entities : startsWithAt(text, i, e.name)}
       IN IF hits = {} THEN <<text[i]>> \o decodeFrom(text, i + 1)
          ELSE LET e == CHOOSE x \in hits : TRUE
               IN <<e.char>> \o decodeFrom(text, i + Len(e.name))

decodeHTMLEntities(text) == decodeFrom(text, 1)

\* start.date, else the date part of start.dateTime, else today's UTC date
extractDate(calendarEvent, utc) ==
  IF calendarEvent.start.kind \in {"date", "dateTime"} THEN calendarEvent.start.day ELSE utc

\* transformGoogleCalendarEvent up to its await: the event without coordinates
newGoogleEvent(calendarEvent, index, utc) ==
  LET categorization == categorizeEvent(calendarEvent.summary, calendarEvent.description)
  IN [ id |-> index,
       title |-> orElse(calendarEvent.summary, UnnamedEvent),
       description |-> decodeHTMLEntities(orElse(calendarEvent.description, NoDescription)),
       category |-> categorization.primary,
       categories |-> categorization.tags,
       date |-> extractDate(calendarEvent, utc),
       location |-> orElse(calendarEvent.location, LocationTBD),
       lat |-> 0, lng |-> 0,
       ann |-> Null ]

\* event.lat = coordinates.lat; event.lng = coordinates.lng
withCoordinates(event, coords) == [event EXCEPT !.lat = coords.lat, !.lng = coords.lng]

\* the for loop of loadGoogleCalendarEvents from item i on, up to the next
\* geocoding request, the end of the items, or an exception
RECURSIVE transformLoop(_, _, _, _, _)
transformLoop(its, i, acc, config, utc) ==
  IF i > Len(its) THEN [kind |-> "done", i |-> i, acc |-> acc, pending |-> Null]
  ELSE IF isExcludedRecurringEvent(its[i].recurringEventId)
       THEN transformLoop(its, i + 1, acc, config, utc)
  ELSE IF categorizeThrows(its[i].summary, its[i].description)
       THEN [kind |-> "threw", i |-> i, acc |-> acc, pending |-> Null]
  ELSE LET event == newGoogleEvent(its[i], i, utc)
       IN IF geocodingEnabled(config)
          THEN [kind |-> "await", i |-> i, acc |-> acc, pending |-> event]
          ELSE transformLoop(its, i + 1,
                             Append(acc, withCoordinates(event, fallbackCoordinates(event.location))),
                             config, utc)

----------------------------------------------------------------------------
(* sanitiseText of EventMap (its own fallback: utils has no sanitiseText)  *)
(* and sanitizeText of utils.                                              *)

\* null or undefined where a string is expected
Missing == <<-2>>

\* the .replace(/&...;/g, char) calls, in order
replacements ==
  << [name |-> <<38, 108, 116, 59>>, char |-> 60],           \* &lt;
     [name |-> <<38, 103, 116, 59>>, char |-> 62],           \* &gt;
     [name |-> <<38, 97, 109, 112, 59>>, char |-> 38],       \* &amp;
     [name |-> <<38, 113, 117, 111, 116, 59>>, char |-> 34], \* &quot;
     [name |-> <<38, 35, 51, 57, 59>>, char |-> 39] >>       \* &#39;

\* text.replace(/name/g, char) from index i on
RECURSIVE replaceAll(_, _, _)
replaceAll(text, i, e) ==
  IF i > Len(text) THEN <<>>
  ELSE IF startsWithAt(text, i, e.name) THEN <<e.char>> \o replaceAll(text, i + Len(e.name), e)
  ELSE <<text[i]>> \o replaceAll(text, i + 1, e)

\* the chain of .replace calls from the k-th on
RECURSIVE replaceEntities(_, _)
replaceEntities(text, k) ==
  IF k > Len(replacements) THEN text
  ELSE replaceEntities(replaceAll(text, 1, replacements[k]), k + 1)

\* text.replace(/<[^>]*>/g, "") from index i on
RECURSIVE stripTags(_, _)
stripTags(text, i) ==
  IF i > Len(text) THEN <<>>
  ELSE LET closing == {j \in (i + 1)..Len(text) : text[j] = 62}
       IN IF text[i] = 60 /\ closing # {}
          THEN stripTags(text, (CHOOSE j \in closing : \A k \in closing : j <= k) + 1)
          ELSE <<text[i]>> \o stripTags(text, i + 1)

\* EventMap.sanitiseText: this.utils.sanitiseText is undefined, so the fallback runs
sanitiseText(text) ==
  IF text \in {Missing, <<>>} THEN <<>>
  ELSE trim(replaceEntities(stripTags(text, 1), 1))

\* div.textContent = text; div.innerHTML: the text with & < > and the
\* no-break space written as character references
RECURSIVE innerHTML(_, _)
innerHTML(text, i) ==
  IF i > Len(text) THEN <<>>
  ELSE (CASE text[i] = 38 -> <<38, 97, 109, 112, 59>>
          [] text[i] = 60 -> <<38, 108, 116, 59>>
          [] text[i] = 62 -> <<38, 103, 116, 59>>
          [] text[i] = 160 -> <<38, 110, 98, 115, 112, 59>>
          [] OTHER -> <<text[i]>>) \o innerHTML(text, i + 1)

\* sanitizeText of utils.js
sanitizeText(text) ==
  IF text \in {Missing, <<>>} THEN <<>>
  ELSE trim(replaceEntities(innerHTML(text, 1), 1))
----------------------------------------------------------------------------
(* processCalendarItems and transformCalendarItem.  Nothing calls           *)
(* processCalendarItems: init loads through loadGoogleCalendarEvents.        *)

UsefulInformation ==
  <<117, 115, 101, 102, 117, 108, 32, 105, 110, 102, 111, 114, 109, 97, 116, 105, 111, 110>>

\* eventDateOnly < today: the local day of the start is before the local day
\* of the call; without a start the date is invalid and no comparison is true
startsBeforeToday(item) == item.start.kind # "none" /\ item.start.day < 0

\* transformCalendarItem: sanitiseText(item.summary || "Unnamed Event") runs,
\* then this.sanitiseHtml is called; EventMap has no such method, the call is
\* a TypeError and nothing after it runs
transformCalendarItem(item, id) ==
  [threw |-> TRUE, id |-> id, title |-> sanitiseText(orElse(item.summary, UnnamedEvent))]

\* the for loop of processCalendarItems from item i on: every exception is
\* caught inside the loop and the item skipped
RECURSIVE processLoop(_, _, _)
processLoop(its, i, processedEvents) ==
  IF i > Len(its) THEN processedEvents
  ELSE LET item == its[i]
           skip == processLoop(its, i + 1, processedEvents)
       IN IF isExcludedRecurringEvent(item.recurringEventId) THEN skip
          ELSE IF startsBeforeToday(item) THEN skip
          ELSE IF item.summary = NotAString THEN skip
          ELSE IF includes(toLowerCase(item.summary), UsefulInformation) THEN skip
          ELSE LET event == transformCalendarItem(item, Len(processedEvents) + 1)
               IN IF event.threw THEN skip
                  ELSE processLoop(its, i + 1, Append(processedEvents, event))

\* processCalendarItems(items): the events pushed; no event is pushed, so the
\* sort by date that ends it moves nothing
processCalendarItems(its) == processLoop(its, 1, <<>>)
----------------------------------------------------------------------------
(* The search query: isPostcode and geocodePostcode.                       *)

toUpperCase(text) ==
  [i \in 1..Len(text) |-> IF text[i] >= 97 /\ text[i] <= 122 THEN text[i] - 32 ELSE text[i]]

\* replace(/\s+/g, with): every maximal run of white space becomes with
RECURSIVE replaceSpaceRuns(_, _, _)
replaceSpaceRuns(text, i, with) ==
  IF i > Len(text) THEN <<>>
  ELSE IF isSpace(text[i])
       THEN (IF i > 1 /\ isSpace(text[i - 1]) THEN <<>> ELSE with) \o replaceSpaceRuns(text, i + 1, with)
       ELSE <<text[i]>> \o replaceSpaceRuns(text, i + 1, with)

isLetter(c, ignoreCase) == (c >= 65 /\ c <= 90) \/ (ignoreCase /\ c >= 97 /\ c <= 122)
isDigit(c) == c >= 48 /\ c <= 57

\* [A-Z]{1,2}[0-9][A-Z0-9]? matches exactly the first n code units
outwardCode(text, n, ignoreCase) ==
  /\ n <= Len(text)
  /\ \E letters \in {1, 2}, extra \in {0, 1} :
       /\ letters + 1 + extra = n
       /\ \A k \in 1..letters : isLetter(text[k], ignoreCase)
       /\ isDigit(text[letters + 1])
       /\ extra = 1 => (isLetter(text[n], ignoreCase) \/ isDigit(text[n]))

\* [0-9][A-Z]{2}$ matches from position from to the end
inwardCode(text, from, ignoreCase) ==
  /\ Len(text) = from + 2
  /\ isDigit(text[from])
  /\ isLetter(text[from + 1], ignoreCase)
  /\ isLetter(text[from + 2], ignoreCase)

\* ^[A-Z]{1,2}[0-9][A-Z0-9]?<gap>[0-9][A-Z]{2}$ with gap one of "\s?", "\s", ""
fullPostcodeRegex(text, gap, ignoreCase) ==
  \E n \in 2..4 :
    /\ outwardCode(text, n, ignoreCase)
    /\ \/ gap \in {"\\s?", ""} /\ inwardCode(text, n + 1, ignoreCase)
       \/ /\ gap \in {"\\s?", "\\s"}
          /\ n + 1 <= Len(text)
          /\ isSpace(text[n + 1])
          /\ inwardCode(text, n + 2, ignoreCase)

\* ^[A-Z]{1,2}[0-9][A-Z0-9]?$
partialPostcodeRegex(text, ignoreCase) == outwardCode(text, Len(text), ignoreCase)

isPostcode(searchQuery) ==
  \/ fullPostcodeRegex(trim(replaceSpaceRuns(searchQuery, 1, <<32>>)), "\\s?", TRUE)
  \/ partialPostcodeRegex(trim(replaceSpaceRuns(searchQuery, 1, <<>>)), TRUE)

\* geocodePostcode: the isPartial flag it computes
isPartialPostcode(postcode) ==
  LET cleanPostcode == toUpperCase(trim(replaceSpaceRuns(postcode, 1, <<32>>)))
  IN /\ ~fullPostcodeRegex(cleanPostcode, "\\s", FALSE)
     /\ ~fullPostcodeRegex(replaceSpaceRuns(cleanPostcode, 1, <<>>), "", FALSE)

searchRadius == 15

\* geocodePostcode: what it resolves with, given what the geocoder found (a
\* coordinate pair, or Null for no result, an HTTP error or a rejected fetch)
geocodePostcode(postcode, found) ==
  IF found = Null THEN Null
  ELSE [lat |-> found.lat, lng |-> found.lng, radius |-> searchRadius,
        isPartial |-> isPartialPostcode(postcode)]

----------------------------------------------------------------------------
(* calculateDistance: the haversine formula, in metres, tabulated for the  *)
(* search origins and the event coordinates of this model.                 *)

haversine ==
  {
    [lat1 |-> 54727000, lng1 |-> -1368000, lat2 |-> 0, lng2 |-> 0, metres |-> 6086649],  \* TS28 to (0,0)
    [lat1 |-> 54727000, lng1 |-> -1368000, lat2 |-> 54775300, lng2 |-> -1584900, metres |-> 14919],  \* TS28 to Durham (geocoded)
    [lat1 |-> 54727000, lng1 |-> -1368000, lat2 |-> 54906900, lng2 |-> -1383800, metres |-> 20030],  \* TS28 to Sunderland (geocoded)
    [lat1 |-> 54727000, lng1 |-> -1368000, lat2 |-> 54977972, lng2 |-> -1621072, metres |-> 32268],  \* TS28 to hash fallback of "Durham"
    [lat1 |-> 54727000, lng1 |-> -1368000, lat2 |-> 54972308, lng2 |-> -1626344, metres |-> 31899],  \* TS28 to hash fallback of "Station Town TS28 5DG"
    [lat1 |-> 54727000, lng1 |-> -1368000, lat2 |-> 54972252, lng2 |-> -1627416, metres |-> 31929],  \* TS28 to hash fallback of "Community Hall"
    [lat1 |-> 54727000, lng1 |-> -1368000, lat2 |-> 54977460, lng2 |-> -1621736, metres |-> 32240],  \* TS28 to hash fallback of "Location TBD"
    [lat1 |-> 54727000, lng1 |-> -1368000, lat2 |-> 54972828, lng2 |-> -1622016, metres |-> 31806],  \* TS28 to hash fallback of "Sunderland"
    [lat1 |-> 51501000, lng1 |-> -142000, lat2 |-> 0, lng2 |-> 0, metres |-> 5726665],  \* SW1A 1AA to (0,0)
    [lat1 |-> 51501000, lng1 |-> -142000, lat2 |-> 54775300, lng2 |-> -1584900, metres |-> 376571],  \* SW1A 1AA to Durham (geocoded)
    [lat1 |-> 51501000, lng1 |-> -142000, lat2 |-> 54906900, lng2 |-> -1383800, metres |-> 387628],  \* SW1A 1AA to Sunderland (geocoded)
    [lat1 |-> 51501000, lng1 |-> -142000, lat2 |-> 54977972, lng2 |-> -1621072, metres |-> 398930],  \* SW1A 1AA to hash fallback of "Durham"
    [lat1 |-> 51501000, lng1 |-> -142000, lat2 |-> 54972308, lng2 |-> -1626344, metres |-> 398408],  \* SW1A 1AA to hash fallback of "Station Town TS28 5DG"
    [lat1 |-> 51501000, lng1 |-> -142000, lat2 |-> 54972252, lng2 |-> -1627416, metres |-> 398420],  \* SW1A 1AA to hash fallback of "Community Hall"
    [lat1 |-> 51501000, lng1 |-> -142000, lat2 |-> 54977460, lng2 |-> -1621736, metres |-> 398886],  \* SW1A 1AA to hash fallback of "Location TBD"
    [lat1 |-> 51501000, lng1 |-> -142000, lat2 |-> 54972828, lng2 |-> -1622016, metres |-> 398393] }  \* SW1A 1AA to hash fallback of "Sunderland"

calculateDistance(lat1, lng1, lat2, lng2) ==
  (CHOOSE d \in haversine : d.lat1 = lat1 /\ d.lng1 = lng1 /\ d.lat2 = lat2 /\ d.lng2 = lng2).metres

----------------------------------------------------------------------------
(* filterEvents after its await, filterEventsByDate and the distance sort. *)

\* a text match that leaves the location out
matchesText_NoLocation(event, searchQuery) ==
  \/ includes(toLowerCase(event.title), searchQuery)
  \/ includes(toLowerCase(event.description), searchQuery)

\* title, description or location contains the query, case-insensitively
matchesText(event, searchQuery) ==
  \/ includes(toLowerCase(event.title), searchQuery)
  \/ includes(toLowerCase(event.description), searchQuery)
  \/ includes(toLowerCase(event.location), searchQuery)

\* the distance branch is taken: a postcode search with coordinates, no text match
measured(event, searchQuery, isPostcodeSearch, searchCoords) ==
  /\ searchQuery # <<>>
  /\ isPostcodeSearch
  /\ searchCoords # Null
  /\ ~matchesText(event, searchQuery)

distanceTo(event, searchCoords) ==
  calculateDistance(searchCoords.lat, searchCoords.lng, event.lat, event.lng)

\* the default radius whatever the origin says
radiusMetres_Default(searchCoords) == 50 * 1000

\* searchCoords.radius || 50, in metres
radiusMetres(searchCoords) == (IF searchCoords.radius # 0 THEN searchCoords.radius ELSE 50) * 1000

matchesSearch(event, searchQuery, isPostcodeSearch, searchCoords) ==
  \/ searchQuery = <<>>
  \/ matchesText(event, searchQuery)
  \/ /\ measured(event, searchQuery, isPostcodeSearch, searchCoords)
     /\ distanceTo(event, searchCoords) <= radiusMetres(searchCoords)

\* a category match on the primary category alone
matchesCategory_PrimaryOnly(event, categoryFilterValue) ==
  \/ categoryFilterValue = ""
  \/ event.category = categoryFilterValue

matchesCategory(event, categoryFilterValue) ==
  \/ categoryFilterValue = ""
  \/ event.category = categoryFilterValue
  \/ \E k \in 1..Len(event.categories) : event.categories[k] = categoryFilterValue

\* the date filter value is <<>> (empty) or <<date>>
matchesDate(event, dateFilterValue) ==
  dateFilterValue = <<>> \/ event.date = dateFilterValue[1]

\* the event as the filter callback leaves it: _searchDistance, _searchRadius, _isPartialPostcode
annotated(event, searchQuery, isPostcodeSearch, searchCoords) ==
  IF measured(event, searchQuery, isPostcodeSearch, searchCoords)
  THEN [event EXCEPT !.ann = [distance |-> distanceTo(event, searchCoords),
                              radius |-> radiusMetres(searchCoords) \div 1000,
                              isPartial |-> searchCoords.isPartial]]
  ELSE event

\* this.events.filter(...): the references kept, in order
RECURSIVE keptRefs(_, _, _, _)
keptRefs(heap, refs, i, pass) ==
  IF i > Len(refs) THEN <<>>
  ELSE LET event == heap[refs[i]]
           keep == /\ matchesSearch(event, pass.searchQuery, pass.isPostcodeSearch, pass.searchCoords)
                   /\ matchesCategory(event, pass.category)
                   /\ matchesDate(event, pass.date)
       IN (IF keep THEN <<refs[i]>> ELSE <<>>) \o keptRefs(heap, refs, i + 1, pass)

DaysToSameDayNextMonth == 30

\* filterEventsByDate: new Date(event.date) is UTC midnight, today is local
\* midnight; tz is the hours local time is ahead of UTC
inDateRange(date, filter, tz) ==
  CASE filter = "today" -> date = 0
    [] filter = "week"  -> date * 24 + tz >= 0 /\ date * 24 + tz <= 7 * 24
    [] filter = "month" -> date * 24 + tz >= 0 /\ date * 24 + tz <= DaysToSameDayNextMonth * 24
    [] OTHER -> TRUE

filterEventsByDate(heap, refs, filter, tz) ==
  SelectSeq(refs, LAMBDA r : inDateRange(heap[r].date, filter, tz))

\* a._searchDistance || 0
sortKey(event) == IF event.ann = Null THEN 0 ELSE event.ann.distance

\* Array.prototype.sort with (a, b) => distanceA - distanceB: a stable sort
RECURSIVE insertByDistance(_, _, _)
insertByDistance(heap, sorted, r) ==
  IF sorted = <<>> THEN <<r>>
  ELSE IF sortKey(heap[sorted[Len(sorted)]]) <= sortKey(heap[r]) THEN Append(sorted, r)
  ELSE Append(insertByDistance(heap, SubSeq(sorted, 1, Len(sorted) - 1), r), sorted[Len(sorted)])

RECURSIVE sortByDistance(_, _, _)
sortByDistance(heap, refs, n) ==
  IF n = 0 THEN <<>>
  ELSE insertByDistance(heap, sortByDistance(heap, refs, n - 1), refs[n])

\* the event objects after the filter callback has visited every element of events
heapAfterPass(heap, refs, pass) ==
  [r \in DOMAIN heap |->
     IF \E i \in 1..Len(refs) : refs[i] = r
     THEN annotated(heap[r], pass.searchQuery, pass.isPostcodeSearch, pass.searchCoords)
     ELSE heap[r]]

\* filterEvents from the filter call to the end: the new filteredEvents
filteredAfterPass(heap, refs, pass, filter, tz) ==
  LET heap2 == heapAfterPass(heap, refs, pass)
      inRange == filterEventsByDate(heap2, keptRefs(heap, refs, 1, pass), filter, tz)
  IN IF pass.isPostcodeSearch /\ pass.searchCoords # Null
     THEN sortByDistance(heap2, inRange, Len(inRange))
     ELSE inRange

----------------------------------------------------------------------------
(* Inputs: calendar items, geocoder results, texts typed, events added.    *)

MaxItems == 2
MaxPending == 2
MaxEvents == 4
TickMs == 100
DEBOUNCE_DELAY == 300

Announcement ==
  [recurringEventId |-> "2scpgqhjtjh5tc33cg3jm3ik5c",
   summary |-> <<80, 117, 98, 108, 105, 99, 32, 65, 110, 110, 111, 117, 110, 99, 101, 109, 101, 110, 116>>,  \* "Public Announcement"
   description |-> <<>>, location |-> <<>>, start |-> [kind |-> "date", day |-> 0]]

BreakfastClubItem ==
  [recurringEventId |-> "",
   summary |-> <<86, 101, 116, 101, 114, 97, 110, 115, 32, 66, 114, 101, 97, 107, 102, 97, 115, 116, 32, 67, 108, 117, 98>>,  \* "Veterans Breakfast Club"
   description |-> <<98, 114, 101, 97, 107, 102, 97, 115, 116, 32, 97, 110, 100, 32, 99, 104, 97, 116>>,  \* "breakfast and chat"
   location |-> <<68, 117, 114, 104, 97, 109>>,  \* "Durham"
   start |-> [kind |-> "date", day |-> 0]]

\* a two-day event that began yesterday: its end is after timeMin
StartedYesterdayItem ==
  [recurringEventId |-> "",
   summary |-> <<67, 111, 102, 102, 101, 101, 32, 77, 111, 114, 110, 105, 110, 103>>,  \* "Coffee Morning"
   description |-> <<97, 100, 118, 105, 99, 101, 32, 102, 111, 114, 32, 118, 101, 116, 101, 114, 97, 110, 115>>,  \* "advice for veterans"
   location |-> <<83, 116, 97, 116, 105, 111, 110, 32, 84, 111, 119, 110, 32, 84, 83, 50, 56, 32, 53, 68, 71>>,  \* "Station Town TS28 5DG"
   start |-> [kind |-> "date", day |-> -1]]

CoffeeMorningItem == [StartedYesterdayItem EXCEPT !.start = [kind |-> "dateTime", day |-> 1]]

ShootingItem ==
  [recurringEventId |-> "",
   summary |-> <<67, 108, 97, 121, 32, 80, 105, 103, 101, 111, 110, 32, 83, 104, 111, 111, 116, 105, 110, 103, 32, 77, 111, 114, 110, 105, 110, 103>>,  \* "Clay Pigeon Shooting Morning"
   description |-> <<98, 114, 101, 97, 107, 102, 97, 115, 116, 32, 112, 114, 111, 118, 105, 100, 101, 100, 32, 98, 101, 102, 111, 114, 101, 32, 115, 104, 111, 111, 116>>,  \* "breakfast provided before shoot"
   location |-> <<67, 111, 109, 109, 117, 110, 105, 116, 121, 32, 72, 97, 108, 108>>,  \* "Community Hall"
   start |-> [kind |-> "dateTime", day |-> 9]]

\* summary is a number
MalformedItem == [BreakfastClubItem EXCEPT !.summary = NotAString]

\* no summary, description, location or start
BareItem ==
  [recurringEventId |-> "", summary |-> <<>>, description |-> <<>>, location |-> <<>>,
   start |-> [kind |-> "none", day |-> 0]]

ItemPool ==
  {Announcement, BreakfastClubItem, StartedYesterdayItem, CoffeeMorningItem, ShootingItem,
   MalformedItem, BareItem}

\* the items of one response are different calendar events
RECURSIVE feedsUpTo(_)
feedsUpTo(n) ==
  IF n = 0 THEN {<<>>}
  ELSE LET shorter == feedsUpTo(n - 1)
       IN shorter \cup
          {Append(f, item) : <<f, item>> \in
             {fi \in shorter \X ItemPool : \A k \in 1..Len(fi[1]) : fi[1][k] # fi[2]}}

Feeds == feedsUpTo(MaxItems) \ {<<>>}

\* what the geocoder may find for a search term
Origins ==
  { [lat |-> 54727000, lng |-> -1368000],    \* TS28
    [lat |-> 51501000, lng |-> -142000] }    \* SW1A 1AA

\* what is typed into the search box, or passed to EventMapAPI.searchEvents
Queries ==
  { <<>>,
    <<32, 84, 83, 50, 56>>,  \* " TS28"
    <<98, 114, 101, 97, 107, 102, 97, 115, 116>>,  \* "breakfast"
    <<100, 117, 114, 104, 97, 109>> }  \* "durham"

\* what is typed before the debounce delay is over
Typed == {q \in Queries : ~isPostcode(trim(toLowerCase(q)))}

CategoryValues == {"", "sport"}
DateValues == {<<>>, <<0>>}
QuickFilters == {"week", "all"}

\* the argument of addEvent: an event without an id
EventData ==
  { [title |-> <<87, 101, 108, 102, 97, 114, 101, 32, 68, 114, 111, 112, 45, 73, 110>>,  \* "Welfare Drop-In"
     description |-> <<97, 100, 118, 105, 99, 101, 32, 102, 111, 114, 32, 118, 101, 116, 101, 114, 97, 110, 115>>,  \* "advice for veterans"
     category |-> "drop-in", categories |-> <<"drop-in", "support">>,
     date |-> 1,
     location |-> <<83, 117, 110, 100, 101, 114, 108, 97, 110, 100>>,  \* "Sunderland"
     lat |-> 54906900, lng |-> -1383800] }

----------------------------------------------------------------------------
(* One location resolution as a process.                                   *)

MaxLocLen == 6
LocChars == {32, 97, 122}

RECURSIVE textsUpTo(_, _)
textsUpTo(chars, n) ==
  IF n = 0 THEN {<<>>}
  ELSE LET shorter == textsUpTo(chars, n - 1)
       IN shorter \cup {Append(t, c) : t \in shorter, c \in chars}

SampleLocations ==
  { <<68, 117, 114, 104, 97, 109>>,                 \* "Durham"
    <<72, 101, 98, 98, 117, 114, 110, 32, 73, 111, 110, 97, 32, 83, 111, 99, 105, 97, 108,
      32, 67, 108, 117, 98, 44, 32, 83, 116, 97, 116, 105, 111, 110, 32, 82, 100>>,
                                                    \* "Hebburn Iona Social Club, Station Rd"
    <<49, 50, 32, 72, 105, 103, 104, 32, 83, 116, 44, 32, 83, 117, 110, 100, 101, 114, 108,
      97, 110, 100>>,                               \* "12 High St, Sunderland"
    <<76, 111, 99, 97, 116, 105, 111, 110, 32, 84, 66, 68>>,   \* "Location TBD"
    <<67, 111, 109, 109, 117, 110, 105, 116, 121, 32, 72, 97, 108, 108>> }  \* "Community Hall"

Locations == SampleLocations \cup textsUpTo(LocChars, MaxLocLen)

\* getCoordinatesForLocation up to its first await
ResolveLocation ==
  /\ locPc = "idle"
  /\ IF geocodingEnabled(geoConfig)
     THEN /\ locPc' = "awaitGoogle"
          /\ trace' = Append(trace, "network")
          /\ UNCHANGED coordinates
     ELSE /\ locPc' = "returned"
          /\ coordinates' = fallbackCoordinates(location)
          /\ UNCHANGED trace
  /\ UNCHANGED <<location, geoOutcome>>
  /\ UNCHANGED <<envVars, loadVars, mapVars, pageVars, passes, timerVars, histVars>>

\* the geocoding request ends, and getCoordinatesForLocation with it
GeocodeDone ==
  /\ locPc = "awaitGoogle"
  /\ \E outcome \in GeoOutcomes, found \in GoogleLocations :
       LET r == afterGeocode(location, geocodeWithGoogle(outcome, found))
       IN /\ geoOutcome' = outcome
          /\ locPc' = IF r.raised THEN "raised" ELSE "returned"
          /\ coordinates' = r.value
  /\ UNCHANGED <<location, trace>>
  /\ UNCHANGED <<envVars, loadVars, mapVars, pageVars, passes, timerVars, histVars>>

----------------------------------------------------------------------------
(* filterEvents up to its await; with no postcode to geocode, to its end.  *)

\* latestResult while the latest filterEvents call awaits its geocoding
Waiting == <<0>>

\* the environment and the fields no filter pass touches
noTimeStep == UNCHANGED <<locVars, envVars, timerVars>>

\* the constants of filterEvents before its await
newPass(inputValue, categoryValue, dateValue) ==
  LET searchQuery == trim(toLowerCase(inputValue))
  IN [searchQuery |-> searchQuery,
      category |-> categoryValue,
      date |-> dateValue,
      isPostcodeSearch |-> isPostcode(searchQuery),
      searchCoords |-> Null,
      latest |-> TRUE]

superseded(waiting) == [k \in 1..Len(waiting) |-> [waiting[k] EXCEPT !.latest = FALSE]]

\* a call of filterEvents on the heap, the events array and the page values
\* its caller leaves behind
FilterEvents(trigger, debounced, heap, refs, inputValue, categoryValue, dateValue, filter) ==
  LET pass == newPass(inputValue, categoryValue, dateValue)
  IN /\ lastStart' = [trigger |-> trigger, debounced |-> debounced]
     /\ IF Len(pass.searchQuery) > 0 /\ pass.isPostcodeSearch
        THEN /\ Len(passes) < MaxPending
             /\ passes' = Append(superseded(passes), pass)
             /\ objs' = heap
             /\ filteredEvents' = filteredEvents
             /\ latestResult' = Waiting
             /\ lastPass' = lastPass
        ELSE /\ passes' = superseded(passes)
             /\ objs' = heapAfterPass(heap, refs, pass)
             /\ filteredEvents' = filteredAfterPass(heap, refs, pass, filter, zone)
             /\ latestResult' = filteredEvents'
             /\ lastPass' = pass

----------------------------------------------------------------------------
(* init and loadGoogleCalendarEvents.                                      *)

noFilterPass == UNCHANGED <<passes, histVars, pageVars, currentDateFilter>>

\* the load threw and init has no catch: init ends there
LoadThrew_Uncaught ==
  /\ loadResult' = "threw"
  /\ loadPc' = "ready"
  /\ spinner' = TRUE
  /\ UNCHANGED <<items, idx, transformedEvents, pending, objs, events, filteredEvents, trace>>

\* the load threw: init logs it and carries on with the events it has
LoadThrew ==
  /\ loadResult' = "threw"
  /\ loadPc' = "ready"
  /\ filteredEvents' = events
  /\ spinner' = FALSE
  /\ UNCHANGED <<items, idx, transformedEvents, pending, objs, events, trace>>

\* an exception in the loop leaves the events transformed so far assigned
LoopRan_AssignsPartial(r) ==
  /\ idx' = r.i
  /\ transformedEvents' = r.acc
  /\ pending' = r.pending
  /\ CASE r.kind = "await" ->
            /\ loadPc' = "resolving"
            /\ trace' = Append(trace, "network")
            /\ UNCHANGED <<loadResult, objs, events, filteredEvents, spinner>>
       [] r.kind = "done" ->
            /\ loadPc' = "ready"
            /\ loadResult' = "assigned"
            /\ objs' = objs \o r.acc
            /\ events' = [k \in 1..Len(r.acc) |-> Len(objs) + k]
            /\ filteredEvents' = events'
            /\ spinner' = FALSE
            /\ UNCHANGED trace
       [] r.kind = "threw" ->
            /\ loadPc' = "ready"
            /\ loadResult' = "threw"
            /\ objs' = objs \o r.acc
            /\ events' = [k \in 1..Len(r.acc) |-> Len(objs) + k]
            /\ filteredEvents' = events'
            /\ spinner' = FALSE
            /\ UNCHANGED trace

\* the loop starts the lookup of an item and, without awaiting it, of the next
LoopRan_NoAwait(r) ==
  /\ idx' = r.i
  /\ transformedEvents' = r.acc
  /\ pending' = r.pending
  /\ CASE r.kind = "await" ->
            /\ loadPc' = "resolving"
            /\ trace' = trace \o <<"network", "network">>
            /\ UNCHANGED <<loadResult, objs, events, filteredEvents, spinner>>
       [] r.kind = "done" ->
            /\ loadPc' = "ready"
            /\ loadResult' = "assigned"
            /\ objs' = objs \o r.acc
            /\ events' = [k \in 1..Len(r.acc) |-> Len(objs) + k]
            /\ filteredEvents' = events'
            /\ spinner' = FALSE
            /\ UNCHANGED trace
       [] r.kind = "threw" ->
            /\ loadPc' = "ready"
            /\ loadResult' = "threw"
            /\ filteredEvents' = events
            /\ spinner' = FALSE
            /\ UNCHANGED <<objs, events, trace>>

\* the state after a stretch of the transformation loop
LoopRan(r) ==
  /\ idx' = r.i
  /\ transformedEvents' = r.acc
  /\ pending' = r.pending
  /\ CASE r.kind = "await" ->
            /\ loadPc' = "resolving"
            /\ trace' = Append(trace, "network")
            /\ UNCHANGED <<loadResult, objs, events, filteredEvents, spinner>>
       [] r.kind = "done" ->
            /\ loadPc' = "ready"
            /\ loadResult' = "assigned"
            /\ objs' = objs \o r.acc
            /\ events' = [k \in 1..Len(r.acc) |-> Len(objs) + k]
            /\ filteredEvents' = events'
            /\ spinner' = FALSE
            /\ UNCHANGED trace
       [] r.kind = "threw" ->
            /\ loadPc' = "ready"
            /\ loadResult' = "threw"
            /\ filteredEvents' = events
            /\ spinner' = FALSE
            /\ UNCHANGED <<objs, events, trace>>

\* init up to the fetch of loadGoogleCalendarEvents
LoadStart ==
  /\ loadPc = "start"
  /\ IF calConfig = "ok"
     THEN /\ loadPc' = "fetching"
          /\ spinner' = TRUE
          /\ UNCHANGED <<items, idx, transformedEvents, pending, loadResult, objs, events,
                         filteredEvents, trace>>
     ELSE LoadThrew
  /\ noFilterPass
  /\ noTimeStep

\* the calendar response arrives
FetchDone ==
  /\ loadPc = "fetching"
  /\ \/ \* fetch rejected, or the response is not OK
        LoadThrew
     \/ \* no items
        /\ loadResult' = "empty"
        /\ loadPc' = "ready"
        /\ events' = <<>>
        /\ filteredEvents' = <<>>
        /\ spinner' = FALSE
        /\ UNCHANGED <<items, idx, transformedEvents, pending, objs, trace>>
     \/ \E feed \in Feeds :
          /\ items' = feed
          /\ LoopRan(transformLoop(feed, 1, <<>>, geoConfig, utcDay))
  /\ noFilterPass
  /\ noTimeStep

\* the geocoding request for the pending event ends
LoadGeocodeDone ==
  /\ loadPc = "resolving"
  /\ \E outcome \in GeoOutcomes, found \in GoogleLocations :
       LET r == afterGeocode(pending.location, geocodeWithGoogle(outcome, found))
       IN IF r.raised
          THEN LoadThrew
          ELSE /\ LoopRan(transformLoop(items, idx + 1,
                                        Append(transformedEvents, withCoordinates(pending, r.value)),
                                        geoConfig, utcDay))
               /\ UNCHANGED items
  /\ noFilterPass
  /\ noTimeStep

\* addEvent(eventData) shows the new event and leaves it out of the events array
AddEvent_Unlisted ==
  /\ loadPc = "ready"
  /\ Len(events) < MaxEvents
  /\ \E eventData \in EventData :
       LET newEvent == [ id |-> Len(events) + 1,
                         title |-> eventData.title, description |-> eventData.description,
                         category |-> eventData.category, categories |-> eventData.categories,
                         date |-> eventData.date, location |-> eventData.location,
                         lat |-> eventData.lat, lng |-> eventData.lng, ann |-> Null ]
       IN /\ objs' = Append(objs, newEvent)
          /\ filteredEvents' = Append(filteredEvents, Len(objs'))
  /\ UNCHANGED <<events, passes, histVars>>
  /\ UNCHANGED <<pageVars, currentDateFilter, loadVars, trace>>
  /\ noTimeStep

\* addEvent(eventData): push, then filterEvents()
AddEvent ==
  /\ loadPc = "ready"
  /\ Len(events) < MaxEvents
  /\ \E eventData \in EventData :
       LET newEvent == [ id |-> Len(events) + 1,
                         title |-> eventData.title, description |-> eventData.description,
                         category |-> eventData.category, categories |-> eventData.categories,
                         date |-> eventData.date, location |-> eventData.location,
                         lat |-> eventData.lat, lng |-> eventData.lng, ann |-> Null ]
           heap == Append(objs, newEvent)
           refs == Append(events, Len(heap))
       IN /\ events' = refs
          /\ FilterEvents("addEvent", FALSE, heap, refs, searchInput, categoryFilter, dateFilter,
                          currentDateFilter)
  /\ UNCHANGED <<pageVars, currentDateFilter, loadVars, trace, burstKeys, burstRuns, lastWait>>
  /\ noTimeStep

----------------------------------------------------------------------------
(* The listeners of setupEventListeners, setDateFilter and EventMapAPI.    *)

\* what a page handler leaves alone besides what it names
pageStep == UNCHANGED <<locVars, envVars, timerVars, loadVars, trace, events, burstKeys,
                        burstRuns, lastWait>>

\* validateSearchInput(rawQuery) || rawQuery.trim(): trimmed, cut to 100 code
\* units, without < > " '
validateSearchInput(input) ==
  LET cut == SubSeq(trim(input), 1, Min(Len(trim(input)), 100))
  IN SelectSeq(cut, LAMBDA c : c \notin {60, 62, 34, 39})

sanitisedQuery(rawQuery) ==
  IF validateSearchInput(rawQuery) # <<>> THEN validateSearchInput(rawQuery) ELSE trim(rawQuery)

\* debounce(func, wait): the returned function clears the pending timeout and
\* sets a new one
debounceArm_NoWait(pendingTimers) == <<0>>

debounceArm_NoClear(pendingTimers) == Append(pendingTimers, DEBOUNCE_DELAY)

debounceArm(pendingTimers) == <<DEBOUNCE_DELAY>>

\* later(): clearTimeout(timeout) clears the timeout set last; timer k has fired
debounceLater(pendingTimers, k) ==
  LET keep == {i \in 1..Len(pendingTimers) : i # k /\ i # Len(pendingTimers)}
      RECURSIVE rest(_)
      rest(i) == IF i > Len(pendingTimers) THEN <<>>
                 ELSE (IF i \in keep THEN <<pendingTimers[i]>> ELSE <<>>) \o rest(i + 1)
  IN rest(1)

\* a due timeout runs before the clock moves on or another key is typed
noTimerDue == \A k \in 1..Len(timers) : timers[k] > 0

\* a keystroke belongs to the burst of the one before it when it follows it by
\* less than the delay
inBurst == sinceKey >= 0 /\ sinceKey < DEBOUNCE_DELAY

\* "input" on the search box: the debounced filter is called
TypeKey ==
  /\ loadPc = "ready"
  /\ noTimerDue
  /\ \E text \in Typed :
       /\ text # searchInput
       /\ searchInput' = text
  /\ timers' = debounceArm(timers)
  /\ sinceKey' = 0
  /\ burstKeys' = IF inBurst THEN 2 ELSE 1
  /\ burstRuns' = IF inBurst THEN burstRuns ELSE 0
  /\ UNCHANGED <<locVars, envVars, loadVars, trace, mapVars, categoryFilter, dateFilter,
                 passes, lastStart, lastWait, latestResult, lastPass>>

\* a timeout of the debounced filter fires: later() runs filterEvents()
DebounceFire ==
  /\ \E k \in 1..Len(timers) :
       /\ timers[k] <= 0
       /\ timers' = debounceLater(timers, k)
  /\ FilterEvents("input", TRUE, objs, events, searchInput, categoryFilter, dateFilter,
                  currentDateFilter)
  /\ burstRuns' = burstRuns + 1
  /\ lastWait' = sinceKey
  /\ UNCHANGED <<locVars, envVars, loadVars, trace, events, currentDateFilter, pageVars,
                 sinceKey, burstKeys>>

\* the clock moves on by TickMs
Tick ==
  /\ loadPc = "ready"
  /\ noTimerDue
  /\ timers # <<>> \/ inBurst
  /\ timers' = [k \in 1..Len(timers) |-> timers[k] - TickMs]
  /\ sinceKey' = IF sinceKey < 0 THEN sinceKey ELSE Min(sinceKey + TickMs, DEBOUNCE_DELAY)
  /\ UNCHANGED <<locVars, envVars, loadVars, trace, mapVars, pageVars, passes, histVars>>

\* performSearch: the input is replaced by its validated value, then filterEvents()
PerformSearch(trigger) ==
  /\ searchInput' = sanitisedQuery(searchInput)
  /\ FilterEvents(trigger, FALSE, objs, events, searchInput', categoryFilter, dateFilter,
                  currentDateFilter)
  /\ UNCHANGED <<categoryFilter, dateFilter, currentDateFilter>>
  /\ pageStep

\* "click" on the search button
ClickSearch ==
  /\ loadPc = "ready"
  /\ PerformSearch("searchBtn")

\* "keypress" on the search box with the Enter key
PressEnter ==
  /\ loadPc = "ready"
  /\ PerformSearch("enter")

\* "change" on the category select
ChangeCategory ==
  /\ loadPc = "ready"
  /\ \E value \in CategoryValues :
       /\ value # categoryFilter
       /\ categoryFilter' = value
       /\ FilterEvents("category", FALSE, objs, events, searchInput, value, dateFilter,
                       currentDateFilter)
  /\ UNCHANGED <<searchInput, dateFilter, currentDateFilter>>
  /\ pageStep

\* "change" on the date input
ChangeDate ==
  /\ loadPc = "ready"
  /\ \E value \in DateValues :
       /\ value # dateFilter
       /\ dateFilter' = value
       /\ FilterEvents("date", FALSE, objs, events, searchInput, categoryFilter, value,
                       currentDateFilter)
  /\ UNCHANGED <<searchInput, categoryFilter, currentDateFilter>>
  /\ pageStep

ClearFilters ==
  /\ loadPc = "ready"
  /\ searchInput' = <<>>
  /\ categoryFilter' = ""
  /\ dateFilter' = <<>>
  /\ currentDateFilter' = "all"
  /\ FilterEvents("clear", FALSE, objs, events, <<>>, "", <<>>, "all")
  /\ pageStep

\* setDateFilter(filterType): the quick date buttons
SetDateFilter ==
  /\ loadPc = "ready"
  /\ \E filterType \in QuickFilters :
       /\ filterType # currentDateFilter
       /\ currentDateFilter' = filterType
       /\ FilterEvents("quickDate", FALSE, objs, events, searchInput, categoryFilter,
                       dateFilter, filterType)
  /\ UNCHANGED pageVars
  /\ pageStep

\* EventMapAPI.filterByCategory(category)
ApiFilterByCategory ==
  /\ loadPc = "ready"
  /\ \E category \in CategoryValues :
       /\ categoryFilter' = category
       /\ FilterEvents("api", FALSE, objs, events, searchInput, category, dateFilter,
                       currentDateFilter)
  /\ UNCHANGED <<searchInput, dateFilter, currentDateFilter>>
  /\ pageStep

\* EventMapAPI.searchEvents(query)
ApiSearchEvents ==
  /\ loadPc = "ready"
  /\ \E query \in Queries :
       /\ searchInput' = query
       /\ FilterEvents("api", FALSE, objs, events, query, categoryFilter, dateFilter,
                       currentDateFilter)
  /\ UNCHANGED <<categoryFilter, dateFilter, currentDateFilter>>
  /\ pageStep

\* the array without its element at index k
without(waiting, k) == SubSeq(waiting, 1, k - 1) \o SubSeq(waiting, k + 1, Len(waiting))

\* the resumed call sorts the events array itself by distance
GeocodePostcodeDone_SortsEvents ==
  /\ \E k \in 1..Len(passes), found \in Origins \cup {Null} :
       LET pass == passes[k]
           resumed == [pass EXCEPT !.searchCoords = geocodePostcode(pass.searchQuery, found)]
       IN /\ passes' = without(passes, k)
          /\ objs' = heapAfterPass(objs, events, resumed)
          /\ filteredEvents' = filteredAfterPass(objs, events, resumed, currentDateFilter, zone)
          /\ events' = IF resumed.searchCoords # Null
                       THEN sortByDistance(objs', events, Len(events))
                       ELSE events
          /\ latestResult' = IF pass.latest THEN filteredEvents' ELSE latestResult
          /\ lastPass' = resumed
  /\ UNCHANGED <<locVars, envVars, loadVars, trace, currentDateFilter, pageVars,
                 timerVars, lastStart, burstKeys, burstRuns, lastWait>>

\* geocodePostcode ends for a waiting filterEvents call, which runs to its end
GeocodePostcodeDone ==
  /\ \E k \in 1..Len(passes), found \in Origins \cup {Null} :
       LET pass == passes[k]
           resumed == [pass EXCEPT !.searchCoords = geocodePostcode(pass.searchQuery, found)]
       IN /\ passes' = without(passes, k)
          /\ objs' = heapAfterPass(objs, events, resumed)
          /\ filteredEvents' = filteredAfterPass(objs, events, resumed, currentDateFilter, zone)
          /\ latestResult' = IF pass.latest THEN filteredEvents' ELSE latestResult
          /\ lastPass' = resumed
  /\ UNCHANGED <<locVars, envVars, loadVars, trace, events, currentDateFilter, pageVars,
                 timerVars, lastStart, burstKeys, burstRuns, lastWait>>
----------------------------------------------------------------------------
(* Specifications.                                                         *)

noResolution ==
  /\ location = <<>>
  /\ locPc = "unused"
  /\ coordinates = Null
  /\ geoOutcome = "none"

noHistory ==
  /\ lastStart = [trigger |-> "none", debounced |-> FALSE]
  /\ burstKeys = 0
  /\ burstRuns = 0
  /\ lastWait = -1
  /\ lastPass = Null
  /\ call = Null
  /\ returned = Null

\* the page as the HTML gives it, and the clock
freshPage ==
  /\ searchInput = <<>>
  /\ categoryFilter = ""
  /\ dateFilter = <<>>
  /\ currentDateFilter = "all"
  /\ passes = <<>>
  /\ timers = <<>>
  /\ sinceKey = -1

\* GMT or BST; in BST the UTC date is yesterday's during the first hour of the day
Zones == {[zone |-> 0, utcDay |-> 0], [zone |-> 1, utcDay |-> -1]}

\* the constructor: the fields of a new EventMap
InitLoad ==
  /\ noResolution
  /\ geoConfig \in {"configured", "disabled"}
  /\ calConfig \in {"ok", "missing", "placeholder"}
  /\ \E z \in Zones : zone = z.zone /\ utcDay = z.utcDay
  /\ trace = <<>>
  /\ loadPc = "start"
  /\ items = <<>>
  /\ idx = 0
  /\ transformedEvents = <<>>
  /\ pending = Null
  /\ loadResult = "none"
  /\ spinner = FALSE
  /\ objs = <<>>
  /\ events = <<>>
  /\ filteredEvents = <<>>
  /\ freshPage
  /\ noHistory
  /\ latestResult = <<>>

NextLoad == LoadStart \/ FetchDone \/ LoadGeocodeDone \/ AddEvent

SpecLoad == InitLoad /\ [][NextLoad]_vars

\* a feed of three items; geocoding finds the first and the third location and
\* fails for the second
SampleFeed == <<BreakfastClubItem, CoffeeMorningItem, ShootingItem>>

SampleEvents ==
  << withCoordinates(newGoogleEvent(SampleFeed[1], 1, 0), [lat |-> 54775300, lng |-> -1584900]),
     withCoordinates(newGoogleEvent(SampleFeed[2], 2, 0), fallbackCoordinates(SampleFeed[2].location)),
     withCoordinates(newGoogleEvent(SampleFeed[3], 3, 0), [lat |-> 54906900, lng |-> -1383800]) >>

\* init has run to its end on SampleFeed
Init ==
  /\ noResolution
  /\ geoConfig = "configured"
  /\ calConfig = "ok"
  /\ zone = 1
  /\ utcDay = 0
  /\ trace = <<"network", "network", "network">>
  /\ loadPc = "ready"
  /\ items = SampleFeed
  /\ idx = 4
  /\ transformedEvents = SampleEvents
  /\ pending = Null
  /\ loadResult = "assigned"
  /\ spinner = FALSE
  /\ objs = SampleEvents
  /\ events = <<1, 2, 3>>
  /\ filteredEvents = <<1, 2, 3>>
  /\ freshPage
  /\ noHistory
  /\ latestResult = <<1, 2, 3>>

Next ==
  \/ PressEnter \/ ApiSearchEvents
  \/ ChangeCategory \/ ChangeDate \/ ClearFilters \/ SetDateFilter
  \/ GeocodePostcodeDone

Spec == Init /\ [][Next]_vars

NextDebounce ==
  \/ TypeKey \/ DebounceFire \/ Tick
  \/ ClickSearch \/ PressEnter
  \/ ChangeCategory \/ ChangeDate \/ ClearFilters \/ SetDateFilter
  \/ ApiFilterByCategory \/ AddEvent

SpecDebounce == Init /\ [][NextDebounce]_vars

InitLoc ==
  /\ location \in Locations
  /\ geoConfig \in GeoConfigs
  /\ locPc = "idle"
  /\ coordinates = Null
  /\ geoOutcome = "none"
  /\ trace = <<>>
  /\ calConfig = "ok"
  /\ zone = 0
  /\ utcDay = 0
  /\ loadPc = "start"
  /\ items = <<>>
  /\ idx = 0
  /\ transformedEvents = <<>>
  /\ pending = Null
  /\ loadResult = "none"
  /\ spinner = FALSE
  /\ objs = <<>>
  /\ events = <<>>
  /\ filteredEvents = <<>>
  /\ freshPage
  /\ noHistory
  /\ latestResult = <<>>

NextLoc == ResolveLocation \/ GeocodeDone

SpecLoc == InitLoc /\ [][NextLoc]_vars


\* values of the category select; "support" is the second tag of the added event
TagValues == {"", "support"}

\* EventMapAPI.filterByCategory(category) with any option of the select
ApiFilterByTag ==
  /\ loadPc = "ready"
  /\ \E category \in TagValues :
       /\ categoryFilter' = category
       /\ FilterEvents("api", FALSE, objs, events, searchInput, category, dateFilter,
                       currentDateFilter)
  /\ UNCHANGED <<searchInput, dateFilter, currentDateFilter>>
  /\ pageStep

\* searches, category filters and added events on the loaded page
NextPass == ApiSearchEvents \/ ApiFilterByTag \/ AddEvent \/ GeocodePostcodeDone

SpecPass == Init /\ [][NextPass]_vars

\* searches, quick date filters and added events on the loaded page
NextFrame == ApiSearchEvents \/ SetDateFilter \/ AddEvent \/ GeocodePostcodeDone

SpecFrame == Init /\ [][NextFrame]_vars
----------------------------------------------------------------------------
(* The pure functions, each called by itself on arguments drawn from a set. *)

\* the EventMap before init has done anything
notStarted ==
  /\ noResolution
  /\ geoConfig = "disabled"
  /\ calConfig = "ok"
  /\ zone = 0
  /\ utcDay = 0
  /\ trace = <<>>
  /\ loadPc = "start"
  /\ items = <<>>
  /\ idx = 0
  /\ transformedEvents = <<>>
  /\ pending = Null
  /\ loadResult = "none"
  /\ spinner = FALSE
  /\ objs = <<>>
  /\ events = <<>>
  /\ filteredEvents = <<>>
  /\ freshPage
  /\ lastStart = [trigger |-> "none", debounced |-> FALSE]
  /\ burstKeys = 0
  /\ burstRuns = 0
  /\ lastWait = -1
  /\ lastPass = Null
  /\ latestResult = <<>>

\* a call changes nothing but what it returns
onlyReturns ==
  UNCHANGED <<locVars, geoConfig, calConfig, utcDay, zone, call, trace, loadVars, mapVars,
              pageVars, passes, timerVars, histVars>>

\* value || ""
orEmpty(value) == IF value = Missing THEN <<>> ELSE value

\* a timed item of today, from 10:00 to 11:00 local time
TalkItem ==
  [recurringEventId |-> "",
   summary |-> <<86, 101, 116, 101, 114, 97, 110, 115, 32, 84, 97, 108, 107>>,  \* "Veterans Talk"
   description |-> <<>>,
   location |-> <<68, 117, 114, 104, 97, 109>>,  \* "Durham"
   start |-> [kind |-> "dateTime", day |-> 0, minute |-> 600],
   end |-> [kind |-> "dateTime", day |-> 0, minute |-> 660]]

\* the minute of the local day at which processCalendarItems is called:
\* before the talk, during it, after it
Clocks == {570, 630, 690}

\* one call, with arguments drawn from Texts (titles and descriptions: those of
\* the sample items and of the added event, the empty string, and null) or
\* from Markup (texts with tags, character references and spaces around them)
InitCalls ==
  LET Texts ==
        {it.summary : it \in ItemPool \ {MalformedItem}}
          \cup {it.description : it \in ItemPool}
          \cup {e.title : e \in EventData}
          \cup {Missing}
      Markup ==
        { Missing,
          <<>>,
          <<38, 97, 109, 112, 59, 108, 116, 59>>,            \* "&amp;lt;"
          <<38, 108, 116, 59, 98, 38, 103, 116, 59>>,        \* "&lt;b&gt;"
          <<60, 98, 62, 104, 105, 60, 47, 98, 62>>,          \* "<b>hi</b>"
          <<32, 97, 38, 113, 117, 111, 116, 59, 32>>,        \* " a&quot; "
          <<38, 97, 109, 112, 59, 113, 117, 111, 116, 59>>,  \* "&amp;quot;"
          <<120, 32, 60, 32, 121>>,                          \* "x < y"
          <<84, 111, 109, 32, 38, 32, 74, 111>> }            \* "Tom & Jo"
  IN /\ notStarted
     /\ \/ \E title \in Texts, description \in Texts :
             call = [fn |-> "categorizeEvent", title |-> title, description |-> description]
        \/ \E fn \in {"sanitiseText", "sanitizeText"}, text \in Markup :
             call = [fn |-> fn, text |-> text]
        \/ \E feed \in Feeds, now \in Clocks :
             call = [fn |-> "processCalendarItems", items |-> feed, now |-> now]
        \/ \E now \in Clocks :
             call = [fn |-> "processCalendarItems", items |-> <<TalkItem>>, now |-> now]
     /\ returned = Null

\* categorizeEvent(title, description)
CategorizeEvent ==
  /\ call # Null
  /\ call.fn = "categorizeEvent"
  /\ returned = Null
  /\ returned' = [value |-> categorizeEvent(orEmpty(call.title), orEmpty(call.description))]
  /\ onlyReturns

\* this.sanitiseText(text)
SanitiseText ==
  /\ call # Null
  /\ call.fn = "sanitiseText"
  /\ returned = Null
  /\ returned' = [value |-> sanitiseText(call.text)]
  /\ onlyReturns

\* EventMapUtils.sanitizeText(text)
SanitizeText ==
  /\ call # Null
  /\ call.fn = "sanitizeText"
  /\ returned = Null
  /\ returned' = [value |-> sanitizeText(call.text)]
  /\ onlyReturns

\* this.processCalendarItems(items), run to the end: it awaits nothing, as
\* transformCalendarItem throws before its own await
ProcessCalendarItems ==
  /\ call # Null
  /\ call.fn = "processCalendarItems"
  /\ returned = Null
  /\ returned' = [value |-> processCalendarItems(call.items)]
  /\ onlyReturns

NextCalls == CategorizeEvent \/ SanitiseText \/ SanitizeText \/ ProcessCalendarItems

SpecCalls == InitCalls /\ [][NextCalls]_vars
----------------------------------------------------------------------------
(* Claims about location resolution.                                       *)

abs(x) == IF x < 0 THEN -x ELSE x

\* C4: in every resolution the Known Location table is looked up before any
\* network geocoding request, and no request is issued when the table (exact
\* key, venue substring or city substring) yields a coordinate.
C4_KnownTableBeforeNetwork ==
  \A i \in 1..Len(trace) :
     trace[i] = "network" =>
       /\ \E j \in 1..(i - 1) : trace[j] = "table"
       /\ getKnownLocationCoordinates(location) = Null

C6_FallbackOffsetBounded ==
  (locPc = "returned" /\ geoOutcome # "OK") =>
     /\ abs(coordinates.lat - DEFAULT_REGION.lat) <= 4000
     /\ abs(coordinates.lng - DEFAULT_REGION.lng) <= 4000

----------------------------------------------------------------------------
(* Claims about the calendar load.                                         *)

eventAt(k) == objs[events[k]]

\* C7: every event of the set a calendar load produces has a date that is not
\* earlier than today's local date.
C7_NoPastDateSurvives ==
  loadResult = "assigned" => \A k \in 1..Len(events) : eventAt(k).date >= 0

\* C8: no event that survives a calendar load has lat = 0 and lng = 0 together.
C8_NoZeroCoordinatesSurvive ==
  loadResult = "assigned" => \A k \in 1..Len(events) : ~(eventAt(k).lat = 0 /\ eventAt(k).lng = 0)

\* C9: after a calendar load followed by any number of addEvent calls, no two
\* events of the events array have the same id.
C9_IdsAreUnique ==
  loadPc = "ready" =>
    \A j, k \in 1..Len(events) : j # k => eventAt(j).id # eventAt(k).id

\* the item at index i is transformed without an exception
processes(i) ==
  /\ ~isExcludedRecurringEvent(items[i].recurringEventId)
  /\ ~categorizeThrows(items[i].summary, items[i].description)

\* C10: when one calendar item raises during a load, only that item is dropped:
\* the load still assigns an event set that holds every item that processes
\* without an exception.
C10_BadItemDoesNotAbortLoad ==
  (loadPc = "ready" /\ lastStart.trigger = "none" /\ items # <<>>) =>
    /\ loadResult = "assigned"
    /\ \A i \in 1..Len(items) :
         processes(i) =>
           \E k \in 1..Len(events) :
              /\ eventAt(k).id = i
              /\ eventAt(k).title = orElse(items[i].summary, UnnamedEvent)

----------------------------------------------------------------------------
(* Claims about the filter passes and the debounced search input.          *)

\* C1: when a filterEvents call A awaits its geocoding and a later call B is
\* made, then once no call is waiting filteredEvents holds what B, the latest
\* call, assigned: A never overwrites it, in whichever order the requests end.
C1_LatestPassWins ==
  (passes = <<>> /\ latestResult # Waiting) => filteredEvents = latestResult

\* C2: a burst of "input" events, each less than DEBOUNCE_DELAY after the one
\* before, makes the debounced handler call filterEvents exactly once, and not
\* before DEBOUNCE_DELAY has passed since the last of them.
C2_DebounceOncePerBurst ==
  /\ burstRuns <= 1
  /\ timers # <<>> => burstRuns = 0
  /\ (burstKeys > 0 /\ timers = <<>>) => burstRuns = 1
  /\ burstRuns = 1 => lastWait >= DEBOUNCE_DELAY

\* a burst of more than one keystroke has ended in its one debounced call
C2_Witness ==
  /\ burstKeys = 2
  /\ burstRuns = 1
  /\ lastStart = [trigger |-> "input", debounced |-> TRUE]
  /\ sinceKey >= DEBOUNCE_DELAY

\* C3 as stated: only the Enter key and the search button call filterEvents
\* at once; the call of every other trigger is a debounced one.
C3_OnlySearchIsImmediate ==
  lastStart.trigger \notin {"none", "enter", "searchBtn"} => lastStart.debounced

\* C3 amended: typing in the search input is the only debounced trigger, and its
\* call comes DEBOUNCE_DELAY after the last keystroke; Enter, the search
\* button, a category or date change, a quick date button, clear filters,
\* EventMapAPI.filterByCategory and EventMapAPI.addEvent call filterEvents at once.
C3_OnlyTypingIsDebounced ==
  /\ lastStart.debounced <=> lastStart.trigger = "input"
  /\ lastStart.trigger = "input" => lastWait >= DEBOUNCE_DELAY
  /\ lastStart.trigger \in {"none", "input", "enter", "searchBtn", "category", "date",
                            "quickDate", "clear", "api", "addEvent"}

\* a category change has called filterEvents while a keystroke's timeout was pending
C3_Witness ==
  /\ lastStart = [trigger |-> "category", debounced |-> FALSE]
  /\ timers # <<>>
  /\ sinceKey < DEBOUNCE_DELAY

----------------------------------------------------------------------------
(* Claims about the arrays, the search and the pure functions.             *)

\* C11: the events array changes only when a calendar load assigns it: no other
\* operation (addEvent, a filter pass) adds, removes or reorders its elements.
C11_EventsOnlyReplacedByLoad ==
  [][events' # events => (loadPc # "ready" /\ loadPc' = "ready")]_vars

\* C12: a filter pass that is not location-based (free text or empty query),
\* run while no other pass is waiting, leaves no event with a search
\* annotation (_searchDistance, _searchRadius, _isPartialPostcode) of an
\* earlier search.
C12_AnnotationsCleared ==
  [][(passes = <<>> /\ passes' = <<>> /\ ~isPostcode(trim(toLowerCase(searchInput'))))
       => \A r \in DOMAIN objs' : objs'[r].ann = Null]_vars


\* the query is a substring of the title, the description or the location,
\* whatever the case of their letters
containsQuery(event, searchQuery) ==
  \E field \in {toLowerCase(event.title), toLowerCase(event.description),
                 toLowerCase(event.location)} :
    \E i \in 0..Len(field) :
      /\ i + Len(searchQuery) <= Len(field)
      /\ \A j \in 1..Len(searchQuery) : field[i + j] = searchQuery[j]

\* the category, date and quick date filters of a pass keep the event
otherFiltersKeep(event, pass) ==
  /\ pass.category # "" =>
       \/ event.category = pass.category
       \/ pass.category \in {event.categories[k] : k \in DOMAIN event.categories}
  /\ pass.date # <<>> => event.date = pass.date[1]
  /\ inDateRange(event.date, currentDateFilter, zone)

\* a filterEvents call came back from geocodePostcode in this step
passResumed == Len(passes') < Len(passes)

\* C13: when geocodePostcode finds nothing for the postcode of a pass, the pass
\* assigns exactly the events a substring search for the query keeps (among
\* those the other filters keep), in the order of the events array, and writes
\* no distance or other annotation on any event.
C13_FailedGeocodeIsTextSearch ==
  [][(passResumed /\ lastPass'.searchCoords = Null)
       => /\ filteredEvents' =
               SelectSeq(events, LAMBDA r : /\ containsQuery(objs[r], lastPass'.searchQuery)
                                            /\ otherFiltersKeep(objs[r], lastPass'))
          /\ objs' = objs]_vars

\* a postcode pass whose geocoding failed has assigned an event that contains the query
C13_Witness ==
  /\ lastPass # Null
  /\ lastPass.isPostcodeSearch
  /\ lastPass.searchCoords = Null
  /\ passes = <<>>
  /\ filteredEvents # <<>>
  /\ Len(filteredEvents) < Len(events)

\* the references in an array, as a set
refsOf(refs) == {refs[k] : k \in DOMAIN refs}

\* the event lies within the radius of the origin a pass was given
withinRadius(event, searchCoords) ==
  calculateDistance(searchCoords.lat, searchCoords.lng, event.lat, event.lng)
    <= searchCoords.radius * 1000

\* C14: when geocodePostcode resolves the postcode of a pass to an origin, the
\* pass keeps an event (among those the other filters keep) if and only if the
\* event lies within the origin's radius or contains the query in its title,
\* description or location.
C14_RadiusOrSubstring ==
  [][(passResumed /\ lastPass'.searchCoords # Null)
       => refsOf(filteredEvents') =
            {r \in refsOf(events) :
               /\ \/ withinRadius(objs[r], lastPass'.searchCoords)
                  \/ containsQuery(objs[r], lastPass'.searchQuery)
               /\ otherFiltersKeep(objs[r], lastPass')}]_vars

\* a pass with an origin has kept one event for its distance alone and one for
\* its text alone, and dropped another
C14_Witness ==
  /\ lastPass # Null
  /\ lastPass.searchCoords # Null
  /\ \E r \in refsOf(filteredEvents) :
       /\ withinRadius(objs[r], lastPass.searchCoords)
       /\ ~containsQuery(objs[r], lastPass.searchQuery)
  /\ \E r \in refsOf(filteredEvents) :
       /\ ~withinRadius(objs[r], lastPass.searchCoords)
       /\ containsQuery(objs[r], lastPass.searchQuery)
  /\ refsOf(events) \ refsOf(filteredEvents) # {}

\* C15: the origin geocodePostcode resolves has radius 15 (km) for a full
\* postcode and radius 25 for a partial, outward-code-only postcode.
C15_RadiusByPostcodeKind ==
  [][(passResumed /\ lastPass'.searchCoords # Null)
       => lastPass'.searchCoords.radius =
            (IF lastPass'.searchCoords.isPartial THEN 25 ELSE 15)]_vars

\* C16: after a pass with a resolved origin, filteredEvents is in ascending order
\* of the events' distances from that origin, and events at the same distance
\* keep the order they have in the events array.
C16_SortedByDistance ==
  [][(passResumed /\ lastPass'.searchCoords # Null)
       => \A i, j \in DOMAIN filteredEvents' :
            i < j =>
              LET indexIn(refs, r) == CHOOSE k \in DOMAIN refs : refs[k] = r
                  di == distanceTo(objs'[filteredEvents'[i]], lastPass'.searchCoords)
                  dj == distanceTo(objs'[filteredEvents'[j]], lastPass'.searchCoords)
              IN /\ di <= dj
                 /\ di = dj => indexIn(events, filteredEvents'[i]) < indexIn(events, filteredEvents'[j])]_vars

\* C17: with no other filter active (no query, no date, no quick date filter),
\* a pass with the category value C, run from start to end in one step, assigns
\* exactly the events whose category is C or whose categories contain C, and
\* with the empty value every event.
C17_CategoryFilter ==
  [][(/\ Len(passes') = Len(passes)
      /\ lastPass'.searchQuery = <<>>
      /\ lastPass'.date = <<>>
      /\ currentDateFilter' = "all")
       => filteredEvents' =
            SelectSeq(events', LAMBDA r :
               \/ lastPass'.category = ""
               \/ objs'[r].category = lastPass'.category
               \/ lastPass'.category \in {objs'[r].categories[k] : k \in DOMAIN objs'[r].categories})]_vars

\* a pass with a category alone has kept one event for its primary category and
\* one for a second tag, and dropped another
C17_Witness ==
  /\ lastPass # Null
  /\ lastPass.searchQuery = <<>> /\ lastPass.date = <<>> /\ currentDateFilter = "all"
  /\ lastPass.category # ""
  /\ passes = <<>>
  /\ \E r \in refsOf(filteredEvents) : objs[r].category = lastPass.category
  /\ \E r \in refsOf(filteredEvents) :
       /\ objs[r].category # lastPass.category
       /\ lastPass.category \in {objs[r].categories[k] : k \in DOMAIN objs[r].categories}
  /\ refsOf(events) \ refsOf(filteredEvents) # {}

\* C19: for every title and description, null included, categorizeEvent returns
\* a non-empty primary, which is tags[0] when tags is not empty, and which is
\* "other" exactly when no rule matched.
C19_PrimaryIsFirstTagOrOther ==
  (call # Null /\ call.fn = "categorizeEvent" /\ returned # Null)
    => LET titleLower == toLowerCase(orEmpty(call.title))
           descLower == toLowerCase(orEmpty(call.description))
           rules == categoryRules(titleLower, descLower, titleLower \o <<32>> \o descLower)
       IN /\ returned.value.primary # ""
          /\ Len(returned.value.tags) > 0 => returned.value.primary = returned.value.tags[1]
          /\ returned.value.primary = "other" <=> \A k \in DOMAIN rules : ~rules[k].hit

\* categorizeEvent has returned two tags or more for a call with a null argument
C19_Witness ==
  /\ call # Null /\ call.fn = "categorizeEvent" /\ returned # Null
  /\ Missing \in {call.title, call.description}
  /\ Len(returned.value.tags) >= 2

\* C20: sanitizing is idempotent: sanitizing what sanitiseText (of EventMap) or
\* sanitizeText (of utils) returned gives the same text again.
C20_SanitizeIdempotent ==
  (call # Null /\ returned # Null)
    => /\ call.fn = "sanitiseText" => sanitiseText(returned.value) = returned.value
       /\ call.fn = "sanitizeText" => sanitizeText(returned.value) = returned.value
----------------------------------------------------------------------------
(* Claims about the failures of the load, the frame of a filter pass and   *)
(* Clear Filters.                                                          *)

qualifies(item) ==
  /\ ~isExcludedRecurringEvent(item.recurringEventId)
  /\ item.start.kind \in {"date", "dateTime"}
  /\ item.start.day >= 0
  /\ item.summary # NotAString
  /\ ~includes(toLowerCase(item.summary), UsefulInformation)

\* C22: every item given to processCalendarItems that is not excluded, does not
\* start before today, has no "useful information" in its title and whose
\* location resolves to coordinates other than (0, 0) is in the returned events.
C22_QualifyingItemIncluded ==
  (call # Null /\ call.fn = "processCalendarItems" /\ returned # Null)
    => \A i \in 1..Len(call.items) :
         (/\ qualifies(call.items[i])
          /\ fallbackCoordinates(orElse(call.items[i].location, LocationTBD)) # [lat |-> 0, lng |-> 0])
           => \E k \in 1..Len(returned.value) :
                returned.value[k].title = sanitiseText(orElse(call.items[i].summary, UnnamedEvent))

\* C23: the event of a timed item of today is returned with isElapsed true
\* exactly when the call is made after the item's end; while the item has
\* started and not ended its event is not elapsed.
C23_ElapsedAfterEnd ==
  (/\ call # Null
   /\ call.fn = "processCalendarItems"
   /\ "end" \in DOMAIN call.items[1]
   /\ returned # Null)
    => \E k \in 1..Len(returned.value) :
         returned.value[k].isElapsed
           = (call.items[1].start.day = 0 /\ call.now > call.items[1].end.minute)

\* C24: when geocodePostcode resolves the postcode of a pass to an origin, the
\* events that carry, after the pass, a _searchDistance measured from that
\* origin are exactly the events that match the search: those within the
\* origin's radius and those containing the query.
C24_AnnotatedExactlyMatching ==
  [][(passResumed /\ lastPass'.searchCoords # Null)
       => \A r \in refsOf(events) :
            (\/ withinRadius(objs'[r], lastPass'.searchCoords)
             \/ containsQuery(objs'[r], lastPass'.searchQuery))
              <=> (/\ objs'[r].ann # Null
                   /\ objs'[r].ann.distance = distanceTo(objs'[r], lastPass'.searchCoords))]_vars

\* C25: a pass whose query is "durham", a place and not a postcode, filters
\* with a search origin of radius 20 (km).
C25_KnownPlaceIsPlaceSearch ==
  (lastPass # Null /\ lastPass.searchQuery = <<100, 117, 114, 104, 97, 109>>)
    => /\ lastPass.searchCoords # Null
       /\ lastPass.searchCoords.radius = 20

\* C26: during a load the geocoding requests issued are never more than the
\* events whose lookup has ended, plus one while a lookup is awaited: one
\* request is in flight at most, and the lookup of an item has ended before the
\* next begins.
C26_OneLookupInFlight ==
  /\ Len(trace) <= Len(transformedEvents) + (IF loadPc = "resolving" THEN 1 ELSE 0)
  /\ loadPc = "resolving" => (pending # Null /\ Len(trace) = Len(transformedEvents) + 1)

\* the lookup of a second item is awaited, the first item's event has its coordinates
C26_Witness ==
  /\ loadPc = "resolving"
  /\ Len(transformedEvents) = 1
  /\ Len(trace) = 2

\* C27: after init, whatever filter passes, added events and geocoding results
\* have come in whatever order, every element of filteredEvents is an element
\* of events.
C27_FilteredWithinEvents ==
  loadPc = "ready" => refsOf(filteredEvents) \subseteq refsOf(events)

\* the filterEvents call of addEvent waited for its geocoding and has assigned
\* some of the events
C27_Witness ==
  /\ Len(events) > 3
  /\ lastStart.trigger = "addEvent"
  /\ lastPass # Null
  /\ lastPass.searchCoords # Null
  /\ passes = <<>>
  /\ filteredEvents # <<>>
  /\ Len(filteredEvents) < Len(events)

\* C28: a filter pass, its quick date filter and its distance sort included,
\* leaves the events array as it is, in length, elements and order; the pass
\* addEvent runs leaves it as the push before the pass made it.
C28_PassKeepsEvents ==
  [][/\ Len(objs') = Len(objs) => events' = events
     /\ Len(objs') > Len(objs) => events' = Append(events, Len(objs'))]_vars

\* a pass with an origin and the quick filter "week" has dropped an event and
\* put the others in another order than the events array has them
C28_Witness ==
  /\ lastPass # Null
  /\ lastPass.searchCoords # Null
  /\ currentDateFilter = "week"
  /\ Len(filteredEvents) = 2
  /\ Len(events) > 2
  /\ filteredEvents[1] > filteredEvents[2]

\* C29: a load that fails (the fetch fails, the response is not OK, or the
\* transformation of an item raises) leaves events as it was before the call,
\* with none of the events transformed so far, and raises the error to init; a
\* load in which the transformation of an item raises does fail.
C29_FailedLoadKeepsEvents ==
  [][/\ (loadResult # "threw" /\ loadResult' = "threw")
          => (events' = events /\ objs' = objs)
     /\ (/\ loadPc # "ready"
         /\ loadPc' = "ready"
         /\ \E i \in 1..Len(items') :
              /\ ~isExcludedRecurringEvent(items'[i].recurringEventId)
              /\ categorizeThrows(items'[i].summary, items'[i].description))
          => loadResult' = "threw"]_vars

\* the transformation of the second item has raised: the event of the first is
\* not in events
C29_Witness ==
  /\ loadResult = "threw"
  /\ transformedEvents # <<>>
  /\ events = <<>>
  /\ objs = <<>>

\* C30: when Clear Filters made the latest filterEvents call and no call is
\* waiting for its geocoding any more, filteredEvents equals events, element
\* by element, also when a postcode search was waiting at the click.
C30_ClearShowsAllEvents ==
  (lastStart.trigger = "clear" /\ passes = <<>>) => filteredEvents = events
====
